---------------------------- MODULE Spec2Model ----------------------------
(***************************************************************************)
(* CleanPlate: the multi-jurisdiction restaurant health-inspection client  *)
(* (HealthInspectionAPI in data_fetcher.py) and the aggregation loops that *)
(* drive it (visualizations.py, app_with_visualizations.py).               *)
(*                                                                         *)
(* Python values are modelled as follows.  A str is a TLA+ string.  An     *)
(* optional value is a sequence of length at most one: None is <<>> and    *)
(* the value v is <<v>>.  A list is a sequence, a dict is a function from  *)
(* its keys, a missing key is a key outside the function's DOMAIN.         *)
(***************************************************************************)
EXTENDS Integers, Sequences, FiniteSets, TLC

VARIABLES
    current_jurisdiction,   \* self.current_jurisdiction
    current_api,            \* self.current_api
    _location_cache,        \* self._location_cache
    _search_cache,          \* self._search_cache: key -> [df, time]
    now,                    \* time.time(), in whole seconds
    call                    \* the call that completed last: arguments and outcome

clientVars == <<current_jurisdiction, current_api, _location_cache, _search_cache>>
vars == <<current_jurisdiction, current_api, _location_cache, _search_cache, now, call>>

---------------------------------------------------------------------------
(* Python built-ins                                                        *)

None == <<>>
Some(v) == <<v>>
IsNone(o) == o = <<>>
Val(o) == o[1]

EmptyDict == <<>>

\* dict.get(k, default)
DictGet(d, k, default) == IF k \in DOMAIN d THEN d[k] ELSE default

\* The printable ASCII characters in code-point order, 32..95 and 97..126.
AsciiLow == " !\"#$%&'()*+,-./0123456789:;<=>?@ABCDEFGHIJKLMNOPQRSTUVWXYZ[\\]^_"
AsciiHigh == "abcdefghijklmnopqrstuvwxyz{|}~"

CharAt(s, i) == SubSeq(s, i, i)

\* The code point of every printable ASCII character but the backtick
OrdTable ==
    [c \in {CharAt(AsciiLow, i) : i \in 1..Len(AsciiLow)}
              \cup {CharAt(AsciiHigh, i) : i \in 1..Len(AsciiHigh)} |->
        IF \E i \in 1..Len(AsciiLow) : CharAt(AsciiLow, i) = c
        THEN 31 + (CHOOSE i \in 1..Len(AsciiLow) : CharAt(AsciiLow, i) = c)
        ELSE 96 + (CHOOSE i \in 1..Len(AsciiHigh) : CharAt(AsciiHigh, i) = c)]

\* ord(c)
Ord(c) == OrdTable[c]

\* chr(n)
Chr(n) == IF n <= 95 THEN CharAt(AsciiLow, n - 31) ELSE CharAt(AsciiHigh, n - 96)

UpperChar(c) == IF Ord(c) >= 97 /\ Ord(c) <= 122 THEN Chr(Ord(c) - 32) ELSE c
LowerChar(c) == IF Ord(c) >= 65 /\ Ord(c) <= 90 THEN Chr(Ord(c) + 32) ELSE c

RECURSIVE upper(_)
\* str.upper()
upper(s) == IF s = "" THEN "" ELSE UpperChar(CharAt(s, 1)) \o upper(Tail(s))

RECURSIVE lower(_)
\* str.lower()
lower(s) == IF s = "" THEN "" ELSE LowerChar(CharAt(s, 1)) \o lower(Tail(s))

\* str.startswith(p), str.endswith(p)
startswith(s, p) == Len(s) >= Len(p) /\ SubSeq(s, 1, Len(p)) = p
endswith(s, p) == Len(s) >= Len(p) /\ SubSeq(s, Len(s) - Len(p) + 1, Len(s)) = p

RECURSIVE lstrip(_, _)
\* str.lstrip(chars): chars is a string, every character of which is stripped
lstrip(s, chars) ==
    IF s # "" /\ (\E i \in 1..Len(chars) : CharAt(chars, i) = CharAt(s, 1))
    THEN lstrip(Tail(s), chars)
    ELSE s

RECURSIVE rstrip(_, _)
\* str.rstrip(chars)
rstrip(s, chars) ==
    IF s # "" /\ (\E i \in 1..Len(chars) : CharAt(chars, i) = CharAt(s, Len(s)))
    THEN rstrip(SubSeq(s, 1, Len(s) - 1), chars)
    ELSE s

\* str.strip(chars); str.strip() strips white space
strip(s, chars) == rstrip(lstrip(s, chars), chars)
Whitespace == " "

RECURSIVE SplitHead(_, _)
\* s.split(sep)[0] for a one-character sep
SplitHead(s, sep) ==
    IF s = "" \/ CharAt(s, 1) = sep THEN ""
    ELSE CharAt(s, 1) \o SplitHead(Tail(s), sep)

RECURSIVE replace_spaces(_)
\* s.replace(' ', '')
replace_spaces(s) ==
    IF s = "" THEN ""
    ELSE (IF CharAt(s, 1) = " " THEN "" ELSE CharAt(s, 1)) \o replace_spaces(Tail(s))

RECURSIVE StrLess(_, _)
\* s < t on Python strings: lexicographic by code point
StrLess(s, t) ==
    IF t = "" THEN FALSE
    ELSE IF s = "" THEN TRUE
    ELSE IF CharAt(s, 1) = CharAt(t, 1) THEN StrLess(Tail(s), Tail(t))
    ELSE Ord(CharAt(s, 1)) < Ord(CharAt(t, 1))

StrGeq(s, t) == ~StrLess(s, t)

---------------------------------------------------------------------------
(* The jurisdiction registry, HealthInspectionAPI.__init__                 *)

apis ==
    "NYC" :>
        [base_url |-> "https://data.cityofnewyork.us/resource/43nn-pn8j.json",
         name |-> "New York City",
         location_field |-> "boro",
         grade_field |-> "grade",
         name_field |-> "dba",
         grading_system |->
            [type |-> "letter",
             score_system |-> TRUE,
             grades |->
                ("A" :> [label |-> "A", description |-> "Excellent - Highest safety standards with minimal or no violations", color |-> "#22c55e", priority |-> "low"]
                 @@ "B" :> [label |-> "B", description |-> "Good - Minor violations that do not pose immediate health risks", color |-> "#f59e0b", priority |-> "medium"]
                 @@ "C" :> [label |-> "C", description |-> "Needs Improvement - Multiple violations requiring correction", color |-> "#ef4444", priority |-> "high"]
                 @@ "Grade Pending" :> [label |-> "Pending", description |-> "Inspection completed, grade determination in progress", color |-> "#6b7280", priority |-> "medium"]
                 @@ "Not Yet Graded" :> [label |-> "Not Graded", description |-> "Recently opened or inspection scheduled", color |-> "#6b7280", priority |-> "medium"])]]
    @@ "Chicago" :>
        [base_url |-> "https://data.cityofchicago.org/resource/4ijn-s7e5.json",
         name |-> "Chicago, IL",
         location_field |-> "ward",
         grade_field |-> "results",
         name_field |-> "dba_name",
         grading_system |->
            [type |-> "pass_fail",
             score_system |-> FALSE,
             risk_levels |->
                ("Risk 1 (High)" :> [label |-> "High Risk", description |-> "Complex food preparation - requires frequent monitoring", color |-> "#ef4444", priority |-> "high"]
                 @@ "Risk 2 (Medium)" :> [label |-> "Medium Risk", description |-> "Moderate food handling - standard inspection schedule", color |-> "#f59e0b", priority |-> "medium"]
                 @@ "Risk 3 (Low)" :> [label |-> "Low Risk", description |-> "Simple operations - minimal food safety concerns", color |-> "#22c55e", priority |-> "low"]),
             grades |->
                ("Pass" :> [label |-> "Pass", description |-> "Excellent - Meets all health and safety requirements without conditions", color |-> "#22c55e", priority |-> "low"]
                 @@ "Pass w/ Conditions" :> [label |-> "Pass*", description |-> "Good - Minor issues noted but allowed to operate with corrective actions", color |-> "#f59e0b", priority |-> "medium"]
                 @@ "Fail" :> [label |-> "Fail", description |-> "Critical - Serious violations requiring immediate closure or correction", color |-> "#ef4444", priority |-> "high"]
                 @@ "Out of Business" :> [label |-> "Closed", description |-> "Establishment permanently closed or no longer operating", color |-> "#6b7280", priority |-> "high"]
                 @@ "Not Ready" :> [label |-> "Not Ready", description |-> "Inspection scheduled but establishment not prepared for evaluation", color |-> "#6b7280", priority |-> "medium"])]]
    @@ "Boston" :>
        [base_url |-> "https://data.boston.gov/api/3/action/datastore_search",
         resource_id |-> "4582bec6-2b4f-4f9e-bc55-cbaa73117f4c",
         name |-> "Boston, MA",
         location_field |-> "city",
         grade_field |-> "viollevel",
         name_field |-> "businessname",
         grading_system |->
            [type |-> "pass_fail",
             score_system |-> FALSE,
             grades |->
                ("HE_Pass" :> [label |-> "Pass", description |-> "Excellent - Meets all Boston health standards and regulations", color |-> "#22c55e", priority |-> "low"]
                 @@ "HE_Fail" :> [label |-> "Fail", description |-> "Critical - Failed inspection due to serious health code violations", color |-> "#ef4444", priority |-> "high"]
                 @@ "Conditional" :> [label |-> "Conditional", description |-> "Fair - Passed with conditions requiring follow-up corrections", color |-> "#f59e0b", priority |-> "medium"])]]
    @@ "Austin" :>
        [base_url |-> "https://data.austintexas.gov/resource/ecmv-9xxi.json",
         name |-> "Austin, TX",
         location_field |-> "zip_code",
         grade_field |-> "score",
         name_field |-> "restaurant_name",
         grading_system |->
            [type |-> "numeric_score",
             score_system |-> TRUE,
             grades |->
                ("90-100" :> [label |-> "A", description |-> "Excellent - Outstanding food safety practices (90-100 points)", color |-> "#22c55e", priority |-> "low"]
                 @@ "80-89" :> [label |-> "B", description |-> "Good - Solid food safety standards with minor issues (80-89 points)", color |-> "#f59e0b", priority |-> "medium"]
                 @@ "70-79" :> [label |-> "C", description |-> "Satisfactory - Meets minimum requirements but needs improvement (70-79 points)", color |-> "#ef4444", priority |-> "high"]
                 @@ "Below 70" :> [label |-> "F", description |-> "Failing - Serious violations requiring immediate attention (<70 points)", color |-> "#dc2626", priority |-> "high"])]]
    @@ "Seattle" :>
        [base_url |-> "https://data.kingcounty.gov/resource/f29f-zza5.json",
         name |-> "Seattle, WA",
         location_field |-> "zip_code",
         grade_field |-> "grade",
         name_field |-> "name",
         grading_system |->
            [type |-> "violation_points",
             score_system |-> TRUE,
             grades |->
                ("0" :> [label |-> "Excellent", description |-> "Perfect - No health code violations found during inspection", color |-> "#22c55e", priority |-> "low"]
                 @@ "1-10" :> [label |-> "Good", description |-> "Very Good - Minor infractions with minimal food safety impact", color |-> "#22c55e", priority |-> "low"]
                 @@ "11-25" :> [label |-> "Fair", description |-> "Acceptable - Some violations noted but correctable issues", color |-> "#f59e0b", priority |-> "medium"]
                 @@ "26-50" :> [label |-> "Poor", description |-> "Concerning - Multiple violations affecting food safety standards", color |-> "#ef4444", priority |-> "high"]
                 @@ "51+" :> [label |-> "Critical", description |-> "Serious - Major violations requiring immediate corrective action", color |-> "#dc2626", priority |-> "high"]
                 @@ "Ungraded" :> [label |-> "Pending", description |-> "Awaiting inspection or recently opened establishment", color |-> "#6b7280", priority |-> "medium"])]]
    @@ "Detroit" :>
        [base_url |-> "https://data.detroitmi.gov/resource/kpnp-cx36.json",
         name |-> "Detroit, MI",
         location_field |-> "address",
         grade_field |-> "inspection_result",
         name_field |-> "business_name",
         grading_system |->
            [type |-> "pass_fail",
             score_system |-> FALSE,
             grades |->
                ("Pass" :> [label |-> "Pass", description |-> "Excellent - Meets all health and safety requirements", color |-> "#22c55e", priority |-> "low"]
                 @@ "Conditional Pass" :> [label |-> "Conditional", description |-> "Good - Minor issues noted, corrective actions required", color |-> "#f59e0b", priority |-> "medium"]
                 @@ "Fail" :> [label |-> "Fail", description |-> "Critical - Serious violations requiring immediate attention", color |-> "#ef4444", priority |-> "high"]
                 @@ "No Entry" :> [label |-> "No Entry", description |-> "Inspection attempted but access denied", color |-> "#6b7280", priority |-> "medium"]
                 @@ "Not Inspected" :> [label |-> "Not Inspected", description |-> "Scheduled but not yet completed", color |-> "#6b7280", priority |-> "medium"])]]
    @@ "Los Angeles" :>
        [base_url |-> "https://data.lacity.org/resource/29fd-3paw.json",
         name |-> "Los Angeles, CA",
         location_field |-> "zip_code",
         grade_field |-> "grade",
         name_field |-> "facility_name",
         grading_system |->
            [type |-> "letter",
             score_system |-> TRUE,
             grades |->
                ("A" :> [label |-> "A", description |-> "Excellent - Consistently meets all Los Angeles health department standards", color |-> "#22c55e", priority |-> "low"]
                 @@ "B" :> [label |-> "B", description |-> "Good - Generally compliant with some minor violations noted", color |-> "#f59e0b", priority |-> "medium"]
                 @@ "C" :> [label |-> "C", description |-> "Needs Improvement - Multiple violations requiring corrective action", color |-> "#ef4444", priority |-> "high"]
                 @@ "Not Graded" :> [label |-> "Pending", description |-> "Recently inspected or awaiting grade assignment", color |-> "#6b7280", priority |-> "medium"])]]
    @@ "Dallas" :>
        [base_url |-> "https://www.dallasopendata.com/resource/dri5-wcct.json",
         name |-> "Dallas, TX (Historical Data)",
         location_field |-> "zip_code",
         grade_field |-> "score",
         name_field |-> "establishment_name",
         grading_system |->
            [type |-> "score",
             score_system |-> TRUE,
             grades |->
                ("90-100" :> [label |-> "Excellent", description |-> "Outstanding - Exceeds Dallas health department standards", color |-> "#22c55e", priority |-> "low"]
                 @@ "80-89" :> [label |-> "Good", description |-> "Good - Meets most health and safety requirements", color |-> "#22c55e", priority |-> "low"]
                 @@ "70-79" :> [label |-> "Satisfactory", description |-> "Satisfactory - Minor violations noted but acceptable", color |-> "#f59e0b", priority |-> "medium"]
                 @@ "60-69" :> [label |-> "Needs Improvement", description |-> "Needs Improvement - Multiple violations requiring attention", color |-> "#ef4444", priority |-> "high"]
                 @@ "Below 60" :> [label |-> "Poor", description |-> "Poor - Serious violations affecting food safety", color |-> "#dc2626", priority |-> "high"]
                 @@ "Unscored" :> [label |-> "Pending", description |-> "Recently inspected or awaiting score assignment", color |-> "#6b7280", priority |-> "medium"])]]
    @@ "Virginia" :>
        [base_url |-> "http://ohi-api.code4hr.org/vendors",
         name |-> "Norfolk, VA",
         location_field |-> "locality",
         grade_field |-> "score",
         name_field |-> "name",
         grading_system |->
            [type |-> "pass_fail",
             score_system |-> TRUE,
             grades |->
                ("Pass" :> [label |-> "Pass", description |-> "Excellent - Meets all Virginia health department standards", color |-> "#22c55e", priority |-> "low"]
                 @@ "Fail" :> [label |-> "Fail", description |-> "Critical - Violations requiring immediate correction", color |-> "#ef4444", priority |-> "high"]
                 @@ "Conditional" :> [label |-> "Conditional", description |-> "Good - Minor issues noted, corrective actions required", color |-> "#f59e0b", priority |-> "medium"]
                 @@ "Pending" :> [label |-> "Pending", description |-> "Recently inspected or awaiting final determination", color |-> "#6b7280", priority |-> "medium"])]]

Jurisdictions == DOMAIN apis

\* Codes a caller may hand to the constructor or to set_jurisdiction: the
\* registry's, and codes that are not in it.
UnknownCodes == {"Mars", "nyc"}
Codes == Jurisdictions \cup UnknownCodes

\* __init__(jurisdiction): the client's fields after construction
NewClient(jurisdiction) ==
    [current_jurisdiction |-> jurisdiction,
     current_api |-> DictGet(apis, jurisdiction, apis["NYC"]),
     _location_cache |-> EmptyDict,
     _search_cache |-> EmptyDict]

\* The client object as one record.
Client ==
    [current_jurisdiction |-> current_jurisdiction,
     current_api |-> current_api,
     _location_cache |-> _location_cache,
     _search_cache |-> _search_cache]

\* The client's fields are those of record c.
ClientIs(c) ==
    /\ current_jurisdiction = c.current_jurisdiction
    /\ current_api = c.current_api
    /\ _location_cache = c._location_cache
    /\ _search_cache = c._search_cache

\* The client's fields become those of record c.
ClientBecomes(c) ==
    /\ current_jurisdiction' = c.current_jurisdiction
    /\ current_api' = c.current_api
    /\ _location_cache' = c._location_cache
    /\ _search_cache' = c._search_cache

\* set_jurisdiction without "self._search_cache = {}"
set_jurisdiction_KeepsSearchCache(c, jurisdiction) ==
    IF jurisdiction \in DOMAIN apis
    THEN [client |-> [c EXCEPT !.current_jurisdiction = jurisdiction,
                               !.current_api = apis[jurisdiction],
                               !._location_cache = EmptyDict],
          ret |-> TRUE]
    ELSE [client |-> c, ret |-> FALSE]

\* set_jurisdiction(jurisdiction): [client, ret]
set_jurisdiction(c, jurisdiction) ==
    IF jurisdiction \in DOMAIN apis
    THEN [client |-> [c EXCEPT !.current_jurisdiction = jurisdiction,
                               !.current_api = apis[jurisdiction],
                               !._location_cache = EmptyDict,
                               !._search_cache = EmptyDict],
          ret |-> TRUE]
    ELSE [client |-> c, ret |-> FALSE]

\* get_available_jurisdictions()
get_available_jurisdictions == Jurisdictions

GradeFallback_WrongLabel(grade) ==
    [label |-> "Unknown", description |-> grade, color |-> "#6b7280", priority |-> "medium"]

\* The descriptor get_grade_info and get_risk_info return for an unmapped value.
GradeFallback(grade) ==
    [label |-> grade, description |-> grade, color |-> "#6b7280", priority |-> "medium"]

\* get_grade_info(grade): [raised, ret]
get_grade_info(c, grade) ==
    LET grading_system == DictGet(c.current_api, "grading_system", EmptyDict)
        grades == DictGet(grading_system, "grades", EmptyDict)
    IN  [raised |-> FALSE, ret |-> DictGet(grades, grade, GradeFallback(grade))]

\* get_risk_info(risk_level): [raised, ret]
get_risk_info(c, risk_level) ==
    LET grading_system == DictGet(c.current_api, "grading_system", EmptyDict)
        risk_levels == DictGet(grading_system, "risk_levels", EmptyDict)
    IN  [raised |-> FALSE, ret |-> DictGet(risk_levels, risk_level, GradeFallback(risk_level))]

\* get_grading_system_info()
get_grading_system_info(c) == DictGet(c.current_api, "grading_system", EmptyDict)

---------------------------------------------------------------------------
(* Helpers of the adapters                                                 *)

\* item.get(field, default) on a raw row whose values are strings
Get(item, field, default) == DictGet(item, field, default)

\* item.get(field): None when the row lacks the field
GetOpt(item, field) == IF field \in DOMAIN item THEN Some(item[field]) ELSE None

\* Python truth of an optional string: neither None nor ''
Truthy(o) == ~IsNone(o) /\ Val(o) # ""

RECURSIVE Join(_, _)
\* sep.join(parts)
Join(sep, parts) ==
    IF parts = <<>> THEN ""
    ELSE IF Len(parts) = 1 THEN parts[1]
    ELSE parts[1] \o sep \o Join(sep, Tail(parts))

RECURSIVE NonEmptyParts(_)
\* [part for part in parts if part]
NonEmptyParts(parts) ==
    IF parts = <<>> THEN <<>>
    ELSE (IF parts[1] # "" THEN <<parts[1]>> ELSE <<>>) \o NonEmptyParts(Tail(parts))

\* ', '.join(address_parts) if address_parts else 'Address not available'
JoinAddress(parts) ==
    IF NonEmptyParts(parts) = <<>> THEN "Address not available"
    ELSE Join(", ", NonEmptyParts(parts))

\* _format_address(item), NYC
_format_address(item) ==
    JoinAddress(<<Get(item, "building", ""), Get(item, "street", ""),
                  Get(item, "boro", ""), Get(item, "zipcode", "")>>)

\* _format_chicago_address(item)
_format_chicago_address(item) ==
    JoinAddress(<<Get(item, "address", ""), Get(item, "city", ""),
                  Get(item, "state", ""), Get(item, "zip", "")>>)

IsDigit(c) == c # "" /\ Ord(c) >= 48 /\ Ord(c) <= 57

RECURSIVE AllDigits(_)
AllDigits(s) == s = "" \/ (IsDigit(CharAt(s, 1)) /\ AllDigits(Tail(s)))

RECURSIVE DigitsValue(_, _)
DigitsValue(s, acc) ==
    IF s = "" THEN acc ELSE DigitsValue(Tail(s), 10 * acc + (Ord(CharAt(s, 1)) - 48))

\* The decimal literals float() accepts here: [sign] digits [. digits], at
\* least one digit; anything else raises ValueError.
Unsigned(s) == IF s # "" /\ CharAt(s, 1) \in {"-", "+"} THEN Tail(s) ELSE s
IntPart(s) == SplitHead(Unsigned(s), ".")
FracPart(s) ==
    IF Len(IntPart(s)) < Len(Unsigned(s))
    THEN SubSeq(Unsigned(s), Len(IntPart(s)) + 2, Len(Unsigned(s)))
    ELSE ""
IsFloatLiteral(s) ==
    /\ AllDigits(IntPart(s))
    /\ AllDigits(FracPart(s))
    /\ Len(IntPart(s)) + Len(FracPart(s)) >= 1

\* _safe_int(value): int(float(value)), None for None, '' and non-numbers
_safe_int(value) ==
    IF Truthy(value) /\ strip(Val(value), Whitespace) # ""
    THEN LET s == strip(Val(value), Whitespace)
         IN  IF IsFloatLiteral(s)
             THEN Some((IF CharAt(s, 1) = "-" THEN -1 ELSE 1) * DigitsValue(IntPart(s), 0))
             ELSE None
    ELSE None

\* _extract_violations(item), NYC
_extract_violations(item) ==
    LET violations ==
            (IF Truthy(GetOpt(item, "violation_description"))
             THEN <<item["violation_description"]>> ELSE <<>>)
            \o (IF GetOpt(item, "critical_flag") = Some("Y")
                THEN <<"Critical violation found">> ELSE <<>>)
            \o (IF Truthy(GetOpt(item, "violation_code"))
                THEN <<"Violation code: " \o item["violation_code"]>> ELSE <<>>)
    IN  IF violations # <<>> THEN violations ELSE <<"No violations recorded">>

RECURSIVE SplitLines(_, _)
\* The pieces of text between the separators '|' and '\n', current piece cur
SplitLines(text, cur) ==
    IF text = "" THEN <<cur>>
    ELSE IF CharAt(text, 1) \in {"|", "\n"} THEN <<cur>> \o SplitLines(Tail(text), "")
    ELSE SplitLines(Tail(text), cur \o CharAt(text, 1))

RECURSIVE StrippedNonBlank(_)
\* [part.strip() for part in parts if part.strip()]
StrippedNonBlank(parts) ==
    IF parts = <<>> THEN <<>>
    ELSE (IF strip(parts[1], Whitespace) # "" THEN <<strip(parts[1], Whitespace)>> ELSE <<>>)
            \o StrippedNonBlank(Tail(parts))

\* _extract_chicago_violations(item)
_extract_chicago_violations(item) ==
    LET violation_text == Get(item, "violations", "")
        violations ==
            IF violation_text # "" /\ strip(violation_text, Whitespace) # ""
            THEN StrippedNonBlank(SplitLines(violation_text, ""))
            ELSE <<>>
    IN  IF violations # <<>> THEN violations ELSE <<"No violations recorded">>

\* item.get(field, '').split('T')[0] if item.get(field) else 'N/A'
DateOf(item, field) ==
    IF Truthy(GetOpt(item, field)) THEN SplitHead(item[field], "T") ELSE "N/A"

RECURSIVE InsertDescending(_, _)
\* x put into a list sorted by descending inspection_date, after the
\* elements whose date is not smaller (the sort is stable)
InsertDescending(sorted, x) ==
    IF sorted = <<>> THEN <<x>>
    ELSE IF StrLess(sorted[1].inspection_date, x.inspection_date)
         THEN <<x>> \o sorted
         ELSE <<sorted[1]>> \o InsertDescending(Tail(sorted), x)

SortInspections_NoSort(inspections) == inspections

RECURSIVE SortInspections(_)
\* inspections.sort(key=lambda x: x['inspection_date'], reverse=True)
SortInspections(inspections) ==
    IF inspections = <<>> THEN <<>>
    ELSE InsertDescending(SortInspections(SubSeq(inspections, 1, Len(inspections) - 1)),
                          inspections[Len(inspections)])

\* list[-limit:] in place of list[:limit]
Truncate_TakesLast(list, limit) ==
    IF limit <= 0 THEN <<>>
    ELSE SubSeq(list, IF limit < Len(list) THEN Len(list) - limit + 1 ELSE 1, Len(list))

\* list[:limit]
Truncate(list, limit) ==
    IF limit >= 0 THEN SubSeq(list, 1, IF limit < Len(list) THEN limit ELSE Len(list))
    ELSE SubSeq(list, 1, IF Len(list) + limit > 0 THEN Len(list) + limit ELSE 0)

\* if cuisines and "All" not in cuisines: keep r with r['cuisine_type'] in cuisines
CuisineFilterApplies(cuisines) ==
    /\ ~IsNone(cuisines)
    /\ Val(cuisines) # <<>>
    /\ \A i \in 1..Len(Val(cuisines)) : Val(cuisines)[i] # "All"

RECURSIVE KeepCuisines(_, _)
KeepCuisines(restaurants, wanted) ==
    IF restaurants = <<>> THEN <<>>
    ELSE (IF \E i \in 1..Len(wanted) : wanted[i] = restaurants[1].cuisine_type
          THEN <<restaurants[1]>> ELSE <<>>) \o KeepCuisines(Tail(restaurants), wanted)

FilterCuisines(restaurants, cuisines) ==
    IF CuisineFilterApplies(cuisines) THEN KeepCuisines(restaurants, Val(cuisines))
    ELSE restaurants

---------------------------------------------------------------------------
(* The data source and _make_api_request                                   *)

\* What one HTTP attempt ends in: a 2xx response whose body parsed ("ok"), a
\* requests Timeout, a ConnectionError, another RequestException (a non-2xx
\* status raised by raise_for_status) or a body that is not JSON.
OutcomeKinds == {"ok", "timeout", "connection", "http_error", "bad_json"}

\* The source's behaviour during one call: the outcomes of the first HTTP
\* attempts in order, and the outcome of every attempt after them.
OutcomeAt(env, n) == IF n <= Len(env.script) THEN env.script[n] ELSE env.tail

max_retries == 3
retry_delay == 1

RECURSIVE RequestAttempts_RetryLast(_, _, _, _)
RequestAttempts_RetryLast(env, used, attempt, sleeps) ==
    IF attempt >= max_retries
    THEN [kind |-> "none", value |-> <<>>, message |-> "",
          attempts |-> attempt, sleeps |-> sleeps]
    ELSE LET o == OutcomeAt(env, used + attempt + 1)
         IN  IF o.kind = "ok"
             THEN [kind |-> "return", value |-> o.body, message |-> "",
                   attempts |-> attempt + 1, sleeps |-> sleeps]
             ELSE IF o.kind \in {"timeout", "connection"}
             THEN RequestAttempts_RetryLast(env, used, attempt + 1,
                      Append(sleeps, retry_delay * (attempt + 1)))
             ELSE [kind |-> "raise", value |-> <<>>, message |-> "API request failed",
                   attempts |-> attempt + 1, sleeps |-> sleeps]

RECURSIVE RequestAttempts_FirstCategory(_, _, _, _)
RequestAttempts_FirstCategory(env, used, attempt, sleeps) ==
    IF attempt >= max_retries
    THEN [kind |-> "none", value |-> <<>>, message |-> "",
          attempts |-> attempt, sleeps |-> sleeps]
    ELSE LET o == OutcomeAt(env, used + attempt + 1)
         IN  IF o.kind = "ok"
             THEN [kind |-> "return", value |-> o.body, message |-> "",
                   attempts |-> attempt + 1, sleeps |-> sleeps]
             ELSE IF o.kind \in {"timeout", "connection"}
             THEN IF attempt < max_retries - 1
                  THEN RequestAttempts_FirstCategory(env, used, attempt + 1,
                           Append(sleeps, retry_delay * (attempt + 1)))
                  ELSE [kind |-> "raise", value |-> <<>>,
                        message |->
                            IF OutcomeAt(env, used + 1).kind = "timeout"
                            THEN "Request timed out after multiple attempts"
                            ELSE "Connection failed - please check your internet connection",
                        attempts |-> attempt + 1, sleeps |-> sleeps]
             ELSE [kind |-> "raise", value |-> <<>>,
                   message |-> IF o.kind = "http_error" THEN "API request failed"
                               ELSE "Invalid API response format",
                   attempts |-> attempt + 1, sleeps |-> sleeps]

RECURSIVE RequestAttempts_RetriesHttpError(_, _, _, _)
RequestAttempts_RetriesHttpError(env, used, attempt, sleeps) ==
    IF attempt >= max_retries
    THEN [kind |-> "none", value |-> <<>>, message |-> "",
          attempts |-> attempt, sleeps |-> sleeps]
    ELSE LET o == OutcomeAt(env, used + attempt + 1)
         IN  IF o.kind = "ok"
             THEN [kind |-> "return", value |-> o.body, message |-> "",
                   attempts |-> attempt + 1, sleeps |-> sleeps]
             ELSE IF attempt < max_retries - 1 /\ o.kind # "bad_json"
             THEN RequestAttempts_RetriesHttpError(env, used, attempt + 1,
                      Append(sleeps, retry_delay * (attempt + 1)))
             ELSE [kind |-> "raise", value |-> <<>>,
                   message |->
                       CASE o.kind = "timeout" ->
                                "Request timed out after multiple attempts"
                         [] o.kind = "connection" ->
                                "Connection failed - please check your internet connection"
                         [] o.kind = "http_error" -> "API request failed"
                         [] o.kind = "bad_json" -> "Invalid API response format",
                   attempts |-> attempt + 1, sleeps |-> sleeps]

RECURSIVE RequestAttempts(_, _, _, _)
\* The loop "for attempt in range(max_retries)" from iteration attempt on;
\* used is the number of HTTP attempts the call made before this request.
\* kind "none" is the loop ending without return or raise.
RequestAttempts(env, used, attempt, sleeps) ==
    IF attempt >= max_retries
    THEN [kind |-> "none", value |-> <<>>, message |-> "",
          attempts |-> attempt, sleeps |-> sleeps]
    ELSE LET o == OutcomeAt(env, used + attempt + 1)
         IN  CASE o.kind = "ok" ->
                    [kind |-> "return", value |-> o.body, message |-> "",
                     attempts |-> attempt + 1, sleeps |-> sleeps]
               [] o.kind = "timeout" ->
                    IF attempt < max_retries - 1
                    THEN RequestAttempts(env, used, attempt + 1,
                             Append(sleeps, retry_delay * (attempt + 1)))
                    ELSE [kind |-> "raise", value |-> <<>>,
                          message |-> "Request timed out after multiple attempts",
                          attempts |-> attempt + 1, sleeps |-> sleeps]
               [] o.kind = "connection" ->
                    IF attempt < max_retries - 1
                    THEN RequestAttempts(env, used, attempt + 1,
                             Append(sleeps, retry_delay * (attempt + 1)))
                    ELSE [kind |-> "raise", value |-> <<>>,
                          message |-> "Connection failed - please check your internet connection",
                          attempts |-> attempt + 1, sleeps |-> sleeps]
               [] o.kind = "http_error" ->
                    [kind |-> "raise", value |-> <<>>, message |-> "API request failed",
                     attempts |-> attempt + 1, sleeps |-> sleeps]
               [] o.kind = "bad_json" ->
                    [kind |-> "raise", value |-> <<>>,
                     message |-> "Invalid API response format",
                     attempts |-> attempt + 1, sleeps |-> sleeps]

\* _make_api_request(endpoint, params): [kind, value, message, attempts, sleeps]
\* kind is "return" (value is the parsed body), "raise" or "none"; attempts
\* counts the HTTP requests sent and sleeps lists the time.sleep arguments.
_make_api_request(env, used) == RequestAttempts(env, used, 0, <<>>)

---------------------------------------------------------------------------
(* Building the filter expression                                          *)

Min(a, b) == IF a < b THEN a ELSE b

_max_records_per_request == 60000

Pad2(n) == IF n < 10 THEN "0" \o ToString(n) ELSE ToString(n)

\* date.strftime('%Y-%m-%d') of a date [year, month, day]
strftime(d) == ToString(d.year) \o "-" \o Pad2(d.month) \o "-" \o Pad2(d.day)

RECURSIVE EqualityClauses(_, _)
\* [f"{field}='{v}'" for v in values]
EqualityClauses(field, values) ==
    IF values = <<>> THEN <<>>
    ELSE <<field \o "='" \o values[1] \o "'">> \o EqualityClauses(field, Tail(values))

\* f"({' OR '.join(conditions)})"
OrGroup(conditions) == "(" \o Join(" OR ", conditions) \o ")"

SearchConditions_KeepsQuotes(name_field, search_term) ==
    IF Truthy(search_term)
    THEN LET s == Val(search_term)
         IN  IF startswith(s, "\"") /\ endswith(s, "\"")
             THEN <<"UPPER(" \o name_field \o ") = '" \o upper(s) \o "'">>
             ELSE IF endswith(s, "*")
             THEN <<"UPPER(" \o name_field \o ") LIKE '" \o upper(rstrip(s, "*")) \o "%'">>
             ELSE <<"UPPER(" \o name_field \o ") LIKE '%" \o upper(s) \o "%'">>
    ELSE <<>>

\* The clauses "if search_term:" appends to where_conditions: exact match for
\* a quote-wrapped term, else prefix match for a term ending in '*', else
\* substring match.
SearchConditions(name_field, search_term) ==
    IF Truthy(search_term)
    THEN LET s == Val(search_term)
         IN  IF startswith(s, "\"") /\ endswith(s, "\"")
             THEN <<"UPPER(" \o name_field \o ") = '" \o upper(strip(s, "\"")) \o "'">>
             ELSE IF endswith(s, "*")
             THEN <<"UPPER(" \o name_field \o ") LIKE '" \o upper(rstrip(s, "*")) \o "%'">>
             ELSE <<"UPPER(" \o name_field \o ") LIKE '%" \o upper(s) \o "%'">>
    ELSE <<>>

\* if date_range and len(date_range) == 2: bounds formatted with strftime
DateConditions(date_range) ==
    IF ~IsNone(date_range) /\ Len(Val(date_range)) = 2
    THEN <<"inspection_date >= '" \o strftime(Val(date_range)[1])
             \o "' AND inspection_date <= '" \o strftime(Val(date_range)[2]) \o "'">>
    ELSE <<>>

\* where_conditions of _get_nyc_restaurants
nyc_where_conditions(location, grades, search_term, date_range) ==
    <<"grade IS NOT NULL">>
    \o (IF Truthy(location) /\ Val(location) # "All"
        THEN <<"boro='" \o Val(location) \o "'">> ELSE <<>>)
    \o (IF ~IsNone(grades) /\ Val(grades) # <<>>
        THEN <<OrGroup(EqualityClauses("grade", Val(grades)))>> ELSE <<>>)
    \o SearchConditions("dba", search_term)
    \o DateConditions(date_range)

RECURSIVE ChicagoResults_BIsPass(_)
ChicagoResults_BIsPass(grades) ==
    IF grades = <<>> THEN <<>>
    ELSE (CASE grades[1] = "A" -> <<"Pass", "Pass w/ Conditions">>
            [] grades[1] = "B" -> <<"Pass">>
            [] grades[1] = "C" -> <<"Fail", "Out of Business">>
            [] grades[1] \in {"Grade Pending", "Not Yet Graded"} -> <<"Not Ready">>
            [] OTHER -> <<>>) \o ChicagoResults_BIsPass(Tail(grades))

RECURSIVE ChicagoResults(_)
\* The native results values the common grades map to
ChicagoResults(grades) ==
    IF grades = <<>> THEN <<>>
    ELSE (CASE grades[1] = "A" -> <<"Pass", "Pass w/ Conditions">>
            [] grades[1] = "B" -> <<"Pass w/ Conditions">>
            [] grades[1] = "C" -> <<"Fail", "Out of Business">>
            [] grades[1] \in {"Grade Pending", "Not Yet Graded"} -> <<"Not Ready">>
            [] OTHER -> <<>>) \o ChicagoResults(Tail(grades))

\* where_conditions of _get_chicago_restaurants
chicago_where_conditions(location, grades, search_term, date_range) ==
    <<"results IS NOT NULL">>
    \o (IF ~IsNone(grades) /\ Val(grades) # <<>> /\ ChicagoResults(Val(grades)) # <<>>
        THEN <<OrGroup(EqualityClauses("results", ChicagoResults(Val(grades))))>>
        ELSE <<>>)
    \o SearchConditions("dba_name", search_term)
    \o DateConditions(date_range)

\* where_conditions of _get_austin_restaurants
austin_where_conditions(location, grades, search_term, date_range) ==
    <<"score IS NOT NULL">>
    \o SearchConditions("restaurant_name", search_term)
    \o DateConditions(date_range)

RECURSIVE DetroitGradeConditions(_)
DetroitGradeConditions(grades) ==
    IF grades = <<>> THEN <<>>
    ELSE (CASE grades[1] = "Pass" -> <<"inspection_result='Pass'">>
            [] grades[1] = "Conditional" -> <<"inspection_result='Conditional Pass'">>
            [] grades[1] = "Fail" -> <<"inspection_result='Fail'">>
            [] OTHER -> <<>>) \o DetroitGradeConditions(Tail(grades))

\* "start_date, end_date = date_range" raises ValueError unless two values
detroit_unpack_raises(date_range) ==
    ~IsNone(date_range) /\ Val(date_range) # <<>> /\ Len(Val(date_range)) # 2

\* where_conditions of _get_detroit_restaurants; the dates are formatted by
\* str(date), which is the ISO form
detroit_where_conditions(location, grades, search_term, date_range) ==
    (IF Truthy(location) /\ Val(location) # "All"
     THEN <<"UPPER(address) LIKE '%" \o upper(Val(location)) \o "%'">> ELSE <<>>)
    \o (IF ~IsNone(grades) /\ Val(grades) # <<>> /\ DetroitGradeConditions(Val(grades)) # <<>>
        THEN <<OrGroup(DetroitGradeConditions(Val(grades)))>> ELSE <<>>)
    \o SearchConditions("business_name", search_term)
    \o (IF ~IsNone(date_range) /\ Len(Val(date_range)) = 2
        THEN <<"inspection_date >= '" \o strftime(Val(date_range)[1])
                 \o "' AND inspection_date <= '" \o strftime(Val(date_range)[2]) \o "'">>
        ELSE <<>>)

\* where_conditions of _get_losangeles_restaurants
losangeles_where_conditions(location, grades, search_term, date_range) ==
    SearchConditions("facility_name", search_term)

RECURSIVE Contains(_, _)
\* ch in s
Contains(s, ch) == s # "" /\ (CharAt(s, 1) = ch \/ Contains(Tail(s), ch))

RECURSIVE AfterFirst(_, _)
\* The text after the first sep of s, which holds one
AfterFirst(s, sep) == IF CharAt(s, 1) = sep THEN Tail(s) ELSE AfterFirst(Tail(s), sep)

\* where_conditions of _get_dallas_restaurants;
\* zip_code is location.split("(")[1].split(")")[0]
dallas_where_conditions(location, grades, search_term, date_range) ==
    SearchConditions("establishment_name", search_term)
    \o (IF Truthy(location) /\ Val(location) # "All"
           /\ Contains(Val(location), "(") /\ Contains(Val(location), ")")
        THEN <<"zip_code = '"
                 \o SplitHead(SplitHead(AfterFirst(Val(location), "("), "("), ")")
                 \o "'">>
        ELSE <<>>)

\* The where_conditions the adapter of jurisdiction j builds
where_conditions(j, location, grades, search_term, date_range) ==
    CASE j = "NYC" -> nyc_where_conditions(location, grades, search_term, date_range)
      [] j = "Chicago" -> chicago_where_conditions(location, grades, search_term, date_range)
      [] j = "Austin" -> austin_where_conditions(location, grades, search_term, date_range)
      [] j = "Detroit" -> detroit_where_conditions(location, grades, search_term, date_range)
      [] j = "Los Angeles" -> losangeles_where_conditions(location, grades, search_term, date_range)
      [] j = "Dallas" -> dallas_where_conditions(location, grades, search_term, date_range)

---------------------------------------------------------------------------
(* The history-building adapters: NYC and Chicago                          *)

\* An insertion-ordered dict: the keys in insertion order and their values.
EmptyOrdered == [keys |-> <<>>, vals |-> EmptyDict]
OrderedHas(d, k) == k \in DOMAIN d.vals
OrderedPut(d, k, v) ==
    IF OrderedHas(d, k)
    THEN [d EXCEPT !.vals = [x \in DOMAIN d.vals |-> IF x = k THEN v ELSE d.vals[x]]]
    ELSE [keys |-> Append(d.keys, k),
          vals |-> [x \in DOMAIN d.vals \cup {k} |-> IF x = k THEN v ELSE d.vals[x]]]
\* list(d.values())
OrderedValues(d) == [i \in 1..Len(d.keys) |-> d.vals[d.keys[i]]]

\* restaurant_key of a NYC row
nyc_restaurant_key(item) ==
    <<strip(Get(item, "dba", ""), Whitespace), Get(item, "building", ""),
      Get(item, "street", "")>>

\* The inspection record of a NYC row
nyc_inspection(item) ==
    [grade |-> Get(item, "grade", "Not Yet Graded"),
     score |-> _safe_int(GetOpt(item, "score")),
     inspection_date |-> DateOf(item, "inspection_date"),
     violations |-> _extract_violations(item),
     inspection_type |-> Get(item, "inspection_type", ""),
     critical_flag |-> Get(item, "critical_flag", "")]

\* The restaurant entry a first-seen NYC row creates
nyc_new_restaurant(item) ==
    [id |-> Get(item, "camis", "") \o replace_spaces(Get(item, "dba", "")),
     name |-> strip(Get(item, "dba", "Unknown Restaurant"), Whitespace),
     address |-> _format_address(item),
     cuisine_type |-> Get(item, "cuisine_description", "Not specified"),
     boro |-> Get(item, "boro", ""),
     phone |-> Get(item, "phone", ""),
     inspections |-> <<nyc_inspection(item)>>]

RECURSIVE nyc_fold_LastSeen(_, _)
\* The fold with a later row of a restaurant replacing its static fields
nyc_fold_LastSeen(raw_data, restaurants_dict) ==
    IF raw_data = <<>> THEN restaurants_dict
    ELSE LET item == raw_data[1]
             restaurant_key == nyc_restaurant_key(item)
         IN  nyc_fold_LastSeen(Tail(raw_data),
                 IF ~OrderedHas(restaurants_dict, restaurant_key)
                 THEN OrderedPut(restaurants_dict, restaurant_key, nyc_new_restaurant(item))
                 ELSE OrderedPut(restaurants_dict, restaurant_key,
                          [nyc_new_restaurant(item) EXCEPT
                              !.inspections =
                                  Append(restaurants_dict.vals[restaurant_key].inspections,
                                         nyc_inspection(item))]))

RECURSIVE nyc_fold(_, _)
\* "for item in raw_data" of _get_nyc_restaurants: restaurants_dict after it
nyc_fold(raw_data, restaurants_dict) ==
    IF raw_data = <<>> THEN restaurants_dict
    ELSE LET item == raw_data[1]
             restaurant_key == nyc_restaurant_key(item)
         IN  nyc_fold(Tail(raw_data),
                 IF ~OrderedHas(restaurants_dict, restaurant_key)
                 THEN OrderedPut(restaurants_dict, restaurant_key, nyc_new_restaurant(item))
                 ELSE OrderedPut(restaurants_dict, restaurant_key,
                          [restaurants_dict.vals[restaurant_key] EXCEPT
                              !.inspections = Append(@, nyc_inspection(item))]))

\* restaurant_data after the sort and restaurant_data.update({...}): the
\* top-level fields are those of inspections[0]
AddLatest(restaurant_data, sorted, default_grade) ==
    [k \in DOMAIN restaurant_data
           \cup {"grade", "score", "inspection_date", "violations", "inspection_type"} |->
        CASE k = "inspections" -> sorted
          [] k = "grade" -> IF sorted # <<>> THEN sorted[1].grade ELSE default_grade
          [] k = "score" -> IF sorted # <<>> THEN sorted[1].score ELSE None
          [] k = "inspection_date" -> IF sorted # <<>> THEN sorted[1].inspection_date ELSE "N/A"
          [] k = "violations" -> IF sorted # <<>> THEN sorted[1].violations ELSE <<>>
          [] k = "inspection_type" -> IF sorted # <<>> THEN sorted[1].inspection_type ELSE ""
          [] OTHER -> restaurant_data[k]]

WithLatest_MirrorBeforeSort(restaurant_data, default_grade) ==
    [AddLatest(restaurant_data, restaurant_data.inspections, default_grade)
        EXCEPT !.inspections = SortInspections(restaurant_data.inspections)]

\* "for restaurant_data in restaurants_dict.values()": sort, mirror, append
WithLatest(restaurant_data, default_grade) ==
    AddLatest(restaurant_data, SortInspections(restaurant_data.inspections), default_grade)

\* The restaurants of raw_data before cuisine filter and truncation, NYC
nyc_restaurants(raw_data) ==
    LET values == OrderedValues(nyc_fold(raw_data, EmptyOrdered))
    IN  [i \in 1..Len(values) |-> WithLatest(values[i], "Not Yet Graded")]

\* The rows processed after "if not raw_data: return []"
nyc_process(raw_data, cuisines, limit) ==
    IF raw_data = <<>> THEN <<>>
    ELSE Truncate(FilterCuisines(nyc_restaurants(raw_data), cuisines), limit)

\* restaurant_key of a Chicago row
chicago_restaurant_key(item) ==
    <<strip(Get(item, "dba_name", ""), Whitespace), Get(item, "address", "")>>

\* The inspection record of a Chicago row
chicago_inspection(item) ==
    [grade |-> Get(item, "results", "Not Ready"),
     score |-> None,
     inspection_date |-> DateOf(item, "inspection_date"),
     violations |-> _extract_chicago_violations(item),
     inspection_type |-> Get(item, "inspection_type", ""),
     risk_level |-> Get(item, "risk", "")]

\* The restaurant entry a first-seen Chicago row creates
chicago_new_restaurant(item) ==
    [id |-> "CHI_" \o Get(item, "license_", "") \o replace_spaces(Get(item, "dba_name", "")),
     name |-> strip(Get(item, "dba_name", "Unknown Restaurant"), Whitespace),
     address |-> _format_chicago_address(item),
     cuisine_type |-> Get(item, "facility_type", "Not specified"),
     boro |-> "Chicago, IL " \o Get(item, "zip", ""),
     phone |-> "",
     inspections |-> <<chicago_inspection(item)>>]

RECURSIVE chicago_fold(_, _)
\* "for item in raw_data" of _get_chicago_restaurants
chicago_fold(raw_data, restaurants_dict) ==
    IF raw_data = <<>> THEN restaurants_dict
    ELSE LET item == raw_data[1]
             restaurant_key == chicago_restaurant_key(item)
         IN  chicago_fold(Tail(raw_data),
                 IF ~OrderedHas(restaurants_dict, restaurant_key)
                 THEN OrderedPut(restaurants_dict, restaurant_key, chicago_new_restaurant(item))
                 ELSE OrderedPut(restaurants_dict, restaurant_key,
                          [restaurants_dict.vals[restaurant_key] EXCEPT
                              !.inspections = Append(@, chicago_inspection(item))]))

\* The restaurants of raw_data before cuisine filter and truncation, Chicago
chicago_restaurants(raw_data) ==
    LET values == OrderedValues(chicago_fold(raw_data, EmptyOrdered))
    IN  [i \in 1..Len(values) |-> WithLatest(values[i], "Not Ready")]

chicago_process(raw_data, cuisines, limit) ==
    IF raw_data = <<>> THEN <<>>
    ELSE Truncate(FilterCuisines(chicago_restaurants(raw_data), cuisines), limit)

\* What an adapter call ends in: raised with message, or ret returned;
\* requests lists the requests handed to _make_api_request, attempts counts
\* the HTTP requests sent, sleeps lists the back-off waits.
AdapterReturn(ret, requests, attempts, sleeps) ==
    [raised |-> FALSE, message |-> "", ret |-> ret, requests |-> requests,
     attempts |-> attempts, sleeps |-> sleeps]
AdapterRaise(message, requests, attempts, sleeps) ==
    [raised |-> TRUE, message |-> message, ret |-> <<>>, requests |-> requests,
     attempts |-> attempts, sleeps |-> sleeps]

\* _get_nyc_restaurants(location, grades, cuisines, search_term, date_range, limit)
_get_nyc_restaurants(c, location, grades, cuisines, search_term, date_range, limit, env) ==
    LET params ==
            ("$limit" :> Min(limit * 120, _max_records_per_request))
            @@ ("$order" :> "inspection_date DESC")
            @@ ("$where" :> Join(" AND ",
                    nyc_where_conditions(location, grades, search_term, date_range)))
            @@ ("$select" :> "camis,dba,boro,building,street,zipcode,phone,cuisine_description,inspection_date,action,violation_code,violation_description,critical_flag,score,grade,grade_date,record_date,inspection_type")
        request == [endpoint |-> c.current_api["base_url"], params |-> params]
        r == _make_api_request(env, 0)
    IN  IF r.kind = "raise"
        THEN AdapterRaise(r.message, <<request>>, r.attempts, r.sleeps)
        ELSE AdapterReturn(nyc_process(r.value, cuisines, limit),
                           <<request>>, r.attempts, r.sleeps)

\* _get_chicago_restaurants(location, grades, cuisines, search_term, date_range, limit)
_get_chicago_restaurants(c, location, grades, cuisines, search_term, date_range, limit, env) ==
    LET params ==
            ("$limit" :> Min(limit * 120, _max_records_per_request))
            @@ ("$order" :> "inspection_date DESC")
            @@ ("$where" :> Join(" AND ",
                    chicago_where_conditions(location, grades, search_term, date_range)))
            @@ ("$select" :> "license_,dba_name,aka_name,facility_type,risk,address,city,state,zip,inspection_date,inspection_type,results,latitude,longitude")
        request == [endpoint |-> c.current_api["base_url"], params |-> params]
        r == _make_api_request(env, 0)
    IN  IF r.kind = "raise"
        THEN AdapterRaise(r.message, <<request>>, r.attempts, r.sleeps)
        ELSE AdapterReturn(chicago_process(r.value, cuisines, limit),
                           <<request>>, r.attempts, r.sleeps)

---------------------------------------------------------------------------
(* The single-request adapters: Austin, Los Angeles, Dallas, Virginia      *)

\* _safe_date_extract(date_str)
_safe_date_extract(date_str) ==
    IF ~Truthy(date_str) THEN "N/A"
    ELSE IF Contains(Val(date_str), "T") THEN SplitHead(Val(date_str), "T")
    ELSE IF Len(Val(date_str)) >= 10 THEN SubSeq(Val(date_str), 1, 10)
    ELSE Val(date_str)

\* The Austin grade bucket of a score; "if score and score >= 90" is false
\* for None and for 0
austin_grade(score) ==
    IF ~IsNone(score) /\ Val(score) # 0 /\ Val(score) >= 90 THEN "90-100"
    ELSE IF ~IsNone(score) /\ Val(score) # 0 /\ Val(score) >= 80 THEN "80-89"
    ELSE IF ~IsNone(score) /\ Val(score) # 0 /\ Val(score) >= 70 THEN "70-79"
    ELSE "Below 70"

austin_restaurant(item) ==
    [id |-> "AUS_" \o Get(item, "facility_id", "")
                \o replace_spaces(Get(item, "restaurant_name", "")),
     name |-> strip(Get(item, "restaurant_name", "Unknown Restaurant"), Whitespace),
     address |-> Get(item, "address", "") \o ", Austin, TX " \o Get(item, "zip_code", ""),
     cuisine_type |-> Get(item, "process_description", "Not specified"),
     grade |-> austin_grade(_safe_int(GetOpt(item, "score"))),
     score |-> _safe_int(GetOpt(item, "score")),
     inspection_date |-> DateOf(item, "inspection_date"),
     violations |-> <<"Violation details not available in Austin dataset">>,
     boro |-> "Austin, TX " \o Get(item, "zip_code", ""),
     phone |-> "",
     inspection_type |-> "Regular Inspection"]

RECURSIVE austin_rows(_, _)
\* "for item in raw_data" of _get_austin_restaurants: the restaurants
\* appended, seen_restaurants being the keys seen before
austin_rows(raw_data, seen_restaurants) ==
    IF raw_data = <<>> THEN <<>>
    ELSE LET item == raw_data[1]
             restaurant_key == <<strip(Get(item, "restaurant_name", ""), Whitespace),
                                 Get(item, "address_1", "")>>
         IN  IF restaurant_key \in seen_restaurants
             THEN austin_rows(Tail(raw_data), seen_restaurants)
             ELSE <<austin_restaurant(item)>>
                    \o austin_rows(Tail(raw_data), seen_restaurants \cup {restaurant_key})

\* _get_austin_restaurants(location, grades, cuisines, search_term, date_range, limit)
_get_austin_restaurants(c, location, grades, cuisines, search_term, date_range, limit, env) ==
    LET params ==
            ("$limit" :> Min(limit * 120, _max_records_per_request))
            @@ ("$order" :> "inspection_date DESC")
            @@ ("$where" :> Join(" AND ",
                    austin_where_conditions(location, grades, search_term, date_range)))
            @@ ("$select" :> "restaurant_name,address,zip_code,score,inspection_date,process_description,facility_id")
        request == [endpoint |-> c.current_api["base_url"], params |-> params]
        r == _make_api_request(env, 0)
    IN  IF r.kind = "raise"
        THEN AdapterRaise(r.message, <<request>>, r.attempts, r.sleeps)
        ELSE AdapterReturn(
                 IF r.value = <<>> THEN <<>>
                 ELSE Truncate(FilterCuisines(austin_rows(r.value, {}), cuisines), limit),
                 <<request>>, r.attempts, r.sleeps)

\* _format_losangeles_address(item)
_format_losangeles_address(item) ==
    JoinAddress(<<Get(item, "facility_address", ""), Get(item, "city", "Los Angeles"),
                  Get(item, "zip_code", "")>>)

losangeles_restaurant(item, facility_name) ==
    [id |-> "LA_" \o Get(item, "serial_number", "") \o replace_spaces(facility_name),
     name |-> facility_name,
     address |-> _format_losangeles_address(item),
     cuisine_type |-> Get(item, "pe_description", "Not specified"),
     grade |-> Get(item, "grade", "Not Graded"),
     score |-> _safe_int(GetOpt(item, "score")),
     inspection_date |-> DateOf(item, "activity_date"),
     violations |-> <<Get(item, "violation_description", "No violations recorded")>>,
     boro |-> "Los Angeles, CA " \o Get(item, "zip_code", ""),
     phone |-> "",
     inspection_type |-> Get(item, "inspection_type", "Health Inspection")]

RECURSIVE losangeles_rows(_, _)
\* "for item in raw_data" of _get_losangeles_restaurants
losangeles_rows(raw_data, seen_restaurants) ==
    IF raw_data = <<>> THEN <<>>
    ELSE LET item == raw_data[1]
             facility_name == strip(Get(item, "facility_name", ""), Whitespace)
             restaurant_key == <<facility_name, Get(item, "facility_address", "")>>
         IN  IF facility_name = "" \/ restaurant_key \in seen_restaurants
             THEN losangeles_rows(Tail(raw_data), seen_restaurants)
             ELSE <<losangeles_restaurant(item, facility_name)>>
                    \o losangeles_rows(Tail(raw_data), seen_restaurants \cup {restaurant_key})

\* _get_losangeles_restaurants(location, grades, cuisines, search_term, date_range, limit)
_get_losangeles_restaurants(c, location, grades, cuisines, search_term, date_range, limit, env) ==
    LET where == losangeles_where_conditions(location, grades, search_term, date_range)
        params ==
            ("$limit" :> Min(limit * 120, _max_records_per_request))
            @@ (IF where # <<>> THEN "$where" :> Join(" AND ", where) ELSE EmptyDict)
        request == [endpoint |-> c.current_api["base_url"], params |-> params]
        r == _make_api_request(env, 0)
    IN  IF r.kind = "raise"
        THEN AdapterRaise(r.message, <<request>>, r.attempts, r.sleeps)
        ELSE AdapterReturn(
                 IF r.value = <<>> THEN <<>>
                 ELSE Truncate(FilterCuisines(losangeles_rows(r.value, {}), cuisines), limit),
                 <<request>>, r.attempts, r.sleeps)

\* _format_dallas_address(item)
_format_dallas_address(item) ==
    JoinAddress(<<Get(item, "address", ""), Get(item, "city", "Dallas"),
                  Get(item, "state", "TX"), Get(item, "zip_code", "")>>)

\* _extract_dallas_violations(item)
_extract_dallas_violations(item) ==
    LET violation_desc == Get(item, "violation_description", "")
        violations ==
            (IF violation_desc # "" /\ strip(violation_desc, Whitespace) # ""
             THEN <<strip(violation_desc, Whitespace)>> ELSE <<>>)
            \o (IF GetOpt(item, "temperature_violation") = Some("Y")
                THEN <<"Temperature violation found">> ELSE <<>>)
            \o (IF GetOpt(item, "critical_violation") = Some("Y")
                THEN <<"Critical violation found">> ELSE <<>>)
    IN  IF violations # <<>> THEN violations ELSE <<"No violations recorded">>

\* The Dallas grade bucket of a score
dallas_grade(score) ==
    IF IsNone(score) THEN "Unscored"
    ELSE IF Val(score) >= 90 THEN "90-100"
    ELSE IF Val(score) >= 80 THEN "80-89"
    ELSE IF Val(score) >= 70 THEN "70-79"
    ELSE IF Val(score) >= 60 THEN "60-69"
    ELSE "Below 60"

dallas_restaurant(item, establishment_name) ==
    [id |-> "DAL_" \o Get(item, "permit_number", "") \o replace_spaces(establishment_name),
     name |-> establishment_name,
     address |-> _format_dallas_address(item),
     cuisine_type |-> Get(item, "establishment_type", "Not specified"),
     grade |-> dallas_grade(_safe_int(GetOpt(item, "score"))),
     score |-> _safe_int(GetOpt(item, "score")),
     inspection_date |-> _safe_date_extract(GetOpt(item, "inspection_date")),
     violations |-> _extract_dallas_violations(item),
     boro |-> "Dallas, TX " \o Get(item, "zip_code", ""),
     phone |-> Get(item, "phone", ""),
     inspection_type |-> "Health Inspection (Historical Data)"]

RECURSIVE dallas_rows(_, _)
\* "for item in raw_data" of _get_dallas_restaurants
dallas_rows(raw_data, seen_restaurants) ==
    IF raw_data = <<>> THEN <<>>
    ELSE LET item == raw_data[1]
             establishment_name == strip(Get(item, "establishment_name", ""), Whitespace)
             restaurant_key == <<establishment_name, Get(item, "address", "")>>
         IN  IF establishment_name = "" \/ restaurant_key \in seen_restaurants
             THEN dallas_rows(Tail(raw_data), seen_restaurants)
             ELSE <<dallas_restaurant(item, establishment_name)>>
                    \o dallas_rows(Tail(raw_data), seen_restaurants \cup {restaurant_key})

\* _get_dallas_restaurants(location, grades, cuisines, search_term, date_range, limit):
\* "except Exception" around the request prints the error and returns []
_get_dallas_restaurants(c, location, grades, cuisines, search_term, date_range, limit, env) ==
    LET where == dallas_where_conditions(location, grades, search_term, date_range)
        params ==
            ("$limit" :> Min(limit * 120, _max_records_per_request))
            @@ (IF where # <<>> THEN "$where" :> Join(" AND ", where) ELSE EmptyDict)
            @@ ("$order" :> "inspection_date DESC")
        request == [endpoint |-> c.current_api["base_url"], params |-> params]
        r == _make_api_request(env, 0)
    IN  IF r.kind = "raise"
        THEN AdapterReturn(<<>>, <<request>>, r.attempts, r.sleeps)
        ELSE AdapterReturn(
                 IF r.value = <<>> THEN <<>>
                 ELSE Truncate(FilterCuisines(dallas_rows(r.value, {}), cuisines), limit),
                 <<request>>, r.attempts, r.sleeps)

\* _format_virginia_address(item)
_format_virginia_address(item) ==
    JoinAddress(<<Get(item, "address", ""),
                  IF Get(item, "city", "") # "" THEN Get(item, "city", "")
                  ELSE Get(item, "locality", "Norfolk"),
                  "VA">>)

\* _extract_virginia_violations(item)
_extract_virginia_violations(item) ==
    LET violation_desc == Get(item, "violation_description", "")
        notes == Get(item, "inspection_notes", "")
        violations ==
            (IF violation_desc # "" /\ strip(violation_desc, Whitespace) # ""
             THEN <<strip(violation_desc, Whitespace)>> ELSE <<>>)
            \o (IF notes # "" /\ strip(notes, Whitespace) # ""
                THEN <<"Notes: " \o strip(notes, Whitespace)>> ELSE <<>>)
    IN  IF violations # <<>> THEN violations ELSE <<"No violations recorded">>

\* The Virginia grade of a score
virginia_grade(score) ==
    IF IsNone(score) THEN "Pending"
    ELSE IF Val(score) >= 70 THEN "Pass"
    ELSE "Fail"

virginia_restaurant(item, name) ==
    [id |-> "VA_" \o Get(item, "_id", "") \o replace_spaces(name),
     name |-> name,
     address |-> _format_virginia_address(item),
     cuisine_type |-> Get(item, "category", "Restaurant"),
     grade |-> virginia_grade(_safe_int(GetOpt(item, "score"))),
     score |-> _safe_int(GetOpt(item, "score")),
     inspection_date |-> _safe_date_extract(GetOpt(item, "last_inspection_date")),
     violations |-> _extract_virginia_violations(item),
     boro |-> Get(item, "locality", "Norfolk") \o ", VA",
     phone |-> Get(item, "phone", ""),
     inspection_type |-> "Health Inspection"]

RECURSIVE virginia_rows(_, _)
\* "for item in raw_data" of _get_virginia_restaurants
virginia_rows(raw_data, seen_restaurants) ==
    IF raw_data = <<>> THEN <<>>
    ELSE LET item == raw_data[1]
             name == strip(Get(item, "name", ""), Whitespace)
             restaurant_key == <<name, Get(item, "address", "")>>
         IN  IF name = "" \/ restaurant_key \in seen_restaurants
             THEN virginia_rows(Tail(raw_data), seen_restaurants)
             ELSE <<virginia_restaurant(item, name)>>
                    \o virginia_rows(Tail(raw_data), seen_restaurants \cup {restaurant_key})

RECURSIVE ReplaceVA(_)
\* location.replace(", VA", "")
ReplaceVA(s) ==
    IF s = "" THEN ""
    ELSE IF startswith(s, ", VA") THEN ReplaceVA(SubSeq(s, 5, Len(s)))
    ELSE CharAt(s, 1) \o ReplaceVA(Tail(s))

RECURSIVE ContainsStr(_, _)
\* p in s
ContainsStr(s, p) == startswith(s, p) \/ (s # "" /\ ContainsStr(Tail(s), p))

\* _get_virginia_restaurants(location, grades, cuisines, search_term, date_range, limit):
\* "except Exception" around the request prints the error and returns []
_get_virginia_restaurants(c, location, grades, cuisines, search_term, date_range, limit, env) ==
    LET params ==
            ("locality" :> (IF Truthy(location) /\ Val(location) # "All"
                               /\ ~ContainsStr(Val(location), "Norfolk")
                            THEN ReplaceVA(Val(location)) ELSE "Norfolk"))
            @@ ("category" :> "Restaurant")
            @@ ("limit" :> Min(limit, 1500))
            @@ (IF Truthy(search_term) THEN "name" :> Val(search_term) ELSE EmptyDict)
        request == [endpoint |-> c.current_api["base_url"], params |-> params]
        r == _make_api_request(env, 0)
    IN  IF r.kind = "raise"
        THEN AdapterReturn(<<>>, <<request>>, r.attempts, r.sleeps)
        ELSE AdapterReturn(
                 IF r.value = <<>> THEN <<>>
                 ELSE Truncate(FilterCuisines(virginia_rows(r.value, {}), cuisines), limit),
                 <<request>>, r.attempts, r.sleeps)

---------------------------------------------------------------------------
(* The paging adapters: Seattle, Detroit, Boston                           *)

RECURSIVE PyRange(_, _, _)
\* range(start, stop, step) for a positive step
PyRange(start, stop, step) ==
    IF start >= stop THEN <<>> ELSE <<start>> \o PyRange(start + step, stop, step)

RECURSIVE OrdSum(_)
OrdSum(s) == IF s = "" THEN 0 ELSE Ord(CharAt(s, 1)) + OrdSum(Tail(s))

\* hash(s) of a str: an integer fixed by the text within one interpreter run.
\* Only "equal texts have equal hashes" is used of it.
PyHash(s) == OrdSum(s) * 31 + Len(s)

\* _format_seattle_address(item)
_format_seattle_address(item) ==
    JoinAddress(<<Get(item, "address", ""), Get(item, "city", ""),
                  Get(item, "zip_code", "")>>)

\* _safe_int(violation_points) or _safe_int(inspection_score) or 0
seattle_violation_points(item) ==
    LET Or(a, b) ==
            IF ~IsNone(a) /\ Val(a) # 0 THEN Val(a)
            ELSE IF ~IsNone(b) /\ Val(b) # 0 THEN Val(b)
            ELSE 0
    IN  Or(_safe_int(GetOpt(item, "violation_points")),
           _safe_int(GetOpt(item, "inspection_score")))

\* The Seattle grade bucket of the violation points
seattle_grade(violation_points) ==
    IF violation_points = 0 THEN "0"
    ELSE IF violation_points <= 10 THEN "1-10"
    ELSE IF violation_points <= 25 THEN "11-25"
    ELSE IF violation_points <= 50 THEN "26-50"
    ELSE "51+"

seattle_restaurant(item, business_name) ==
    [id |-> "SEA_" \o Get(item, "business_id", "") \o replace_spaces(business_name),
     name |-> business_name,
     address |-> _format_seattle_address(item),
     cuisine_type |-> Get(item, "program_identifier", "Not specified"),
     grade |-> seattle_grade(seattle_violation_points(item)),
     score |-> Some(seattle_violation_points(item)),
     inspection_date |-> DateOf(item, "inspection_date"),
     violations |-> <<Get(item, "violation_description", "No violations recorded")>>,
     boro |-> "Seattle, WA " \o Get(item, "zip_code", ""),
     phone |-> "",
     inspection_type |-> Get(item, "inspection_type", "Regular Inspection")]

seattle_batch_size == 50000
seattle_record_ceiling == 400000
seattle_range_ceiling == 500000
seattle_target == 4000

RECURSIVE seattle_rows(_, _, _)
\* "for item in raw_data" of _get_seattle_restaurants, left when
\* all_restaurants holds seattle_target restaurants
seattle_rows(raw_data, all_restaurants, seen_restaurants) ==
    IF raw_data = <<>>
    THEN [all_restaurants |-> all_restaurants, seen_restaurants |-> seen_restaurants]
    ELSE LET item == raw_data[1]
             Kept(restaurant_key, grown) ==
                 IF Len(grown) >= seattle_target
                 THEN [all_restaurants |-> grown,
                       seen_restaurants |-> seen_restaurants \cup {restaurant_key}]
                 ELSE seattle_rows(Tail(raw_data), grown,
                                   seen_restaurants \cup {restaurant_key})
             Named(business_name, restaurant_key) ==
                 IF business_name = "" \/ restaurant_key \in seen_restaurants
                 THEN seattle_rows(Tail(raw_data), all_restaurants, seen_restaurants)
                 ELSE Kept(restaurant_key,
                           Append(all_restaurants,
                                  seattle_restaurant(item, business_name)))
             Stripped(business_name) ==
                 Named(business_name, <<business_name, Get(item, "address", "")>>)
         IN  Stripped(strip(Get(item, "name", ""), Whitespace))

seattle_request(c, search_term, offset) ==
    [endpoint |-> c.current_api["base_url"],
     params |->
        ("$limit" :> seattle_batch_size)
        @@ ("$offset" :> offset)
        @@ ("$select" :> "name,address,business_id,program_identifier,violation_points,inspection_score,inspection_date,inspection_type,zip_code")
        @@ ("$order" :> "business_id")
        @@ (IF Truthy(search_term)
            THEN "$where" :> "UPPER(name) LIKE '%" \o upper(Val(search_term)) \o "%'"
            ELSE EmptyDict)]

RECURSIVE seattle_pages(_, _, _, _, _, _, _, _, _)
\* "for offset in range(...)" of _get_seattle_restaurants over the offsets left
seattle_pages(c, search_term, offsets, env, all_restaurants, seen_restaurants, requests, attempts, sleeps) ==
    IF offsets = <<>>
    THEN AdapterReturn(all_restaurants, requests, attempts, sleeps)
    ELSE LET Processed(r, sent, p) ==
                 IF Len(p.all_restaurants) >= seattle_target
                 THEN AdapterReturn(p.all_restaurants, sent, attempts + r.attempts,
                                    sleeps \o r.sleeps)
                 ELSE seattle_pages(c, search_term, Tail(offsets), env, p.all_restaurants,
                                    p.seen_restaurants, sent, attempts + r.attempts,
                                    sleeps \o r.sleeps)
             Answered(r, sent) ==
                 IF r.kind = "raise"
                 THEN AdapterRaise(r.message, sent, attempts + r.attempts,
                                   sleeps \o r.sleeps)
                 ELSE IF r.value = <<>>
                 THEN AdapterReturn(all_restaurants, sent, attempts + r.attempts,
                                    sleeps \o r.sleeps)
                 ELSE Processed(r, sent,
                                seattle_rows(r.value, all_restaurants, seen_restaurants))
         IN  Answered(_make_api_request(env, attempts),
                      Append(requests, seattle_request(c, search_term, offsets[1])))

\* The Seattle adapter with max_records = limit * 100, without the ceiling
_get_seattle_restaurants_NoRecordCeiling(c, location, grades, cuisines, search_term, date_range, limit, env) ==
    LET max_records == limit * 100
        Paged(p) ==
            IF p.raised THEN p
            ELSE AdapterReturn(Truncate(FilterCuisines(p.ret, cuisines), limit),
                               p.requests, p.attempts, p.sleeps)
    IN  Paged(seattle_pages(c, search_term,
                  PyRange(0, Min(max_records, seattle_range_ceiling), seattle_batch_size),
                  env, <<>>, {}, <<>>, 0, <<>>))

\* _get_seattle_restaurants(location, grades, cuisines, search_term, date_range, limit)
_get_seattle_restaurants(c, location, grades, cuisines, search_term, date_range, limit, env) ==
    LET max_records == Min(seattle_record_ceiling, limit * 100)
        Paged(p) ==
            IF p.raised THEN p
            ELSE AdapterReturn(Truncate(FilterCuisines(p.ret, cuisines), limit),
                               p.requests, p.attempts, p.sleeps)
    IN  Paged(seattle_pages(c, search_term,
                  PyRange(0, Min(max_records, seattle_range_ceiling), seattle_batch_size),
                  env, <<>>, {}, <<>>, 0, <<>>))

\* _format_detroit_address(item)
_format_detroit_address(item) ==
    JoinAddress(<<Get(item, "address", ""), Get(item, "city", ""),
                  Get(item, "state", ""), Get(item, "zip", "")>>)

\* grade_mapping.get(inspection_result, inspection_result) of the Detroit adapter
detroit_grade(inspection_result) ==
    IF inspection_result = "Conditional Pass" THEN "Conditional" ELSE inspection_result

\* The violations list of a Detroit record
detroit_violations(item) ==
    LET violation_type == Get(item, "violation_type", "")
        violation_desc == Get(item, "violation_description", "")
    IN  IF violation_desc = "" THEN <<"No violations recorded">>
        ELSE IF violation_type # "" THEN <<violation_type \o ": " \o violation_desc>>
        ELSE <<violation_desc>>

detroit_restaurant(item, business_name, address) ==
    [id |-> "DET_" \o ToString(PyHash(business_name \o address) % 100000),
     name |-> strip(business_name, Whitespace),
     address |-> _format_detroit_address(item),
     cuisine_type |-> "Restaurant",
     grade |-> detroit_grade(Get(item, "inspection_result", "Unknown")),
     score |-> Some(0),
     inspection_date |-> _safe_date_extract(Some(Get(item, "inspection_date", ""))),
     violations |-> detroit_violations(item),
     boro |-> "Detroit, MI " \o Get(item, "zip", ""),
     phone |-> "",
     inspection_type |-> "Health Inspection"]

detroit_batch_size == 10000
detroit_record_ceiling == 100000

RECURSIVE detroit_rows(_, _, _, _)
\* "for item in data" of _get_detroit_restaurants, left when all_restaurants
\* holds limit restaurants
detroit_rows(data, all_restaurants, seen_restaurants, limit) ==
    IF data = <<>>
    THEN [all_restaurants |-> all_restaurants, seen_restaurants |-> seen_restaurants]
    ELSE LET item == data[1]
             business_name == Get(item, "business_name", "")
             address == Get(item, "address", "")
             restaurant_key == strip(lower(business_name), Whitespace) \o "|" \o lower(address)
             grown == Append(all_restaurants,
                             detroit_restaurant(item, business_name, address))
         IN  IF business_name = "" \/ Len(strip(business_name, Whitespace)) < 2
                \/ restaurant_key \in seen_restaurants
             THEN detroit_rows(Tail(data), all_restaurants, seen_restaurants, limit)
             ELSE IF Len(grown) >= limit
             THEN [all_restaurants |-> grown,
                   seen_restaurants |-> seen_restaurants \cup {restaurant_key}]
             ELSE detroit_rows(Tail(data), grown,
                               seen_restaurants \cup {restaurant_key}, limit)

detroit_request(c, where, limit, offset) ==
    [endpoint |-> c.current_api["base_url"],
     params |->
        ("$limit" :> detroit_batch_size)
        @@ ("$order" :> "inspection_date DESC")
        @@ ("$select" :> "business_name,address,city,state,zip,inspection_date,inspection_result,violation_type,violation_description")
        @@ (IF where # <<>> THEN "$where" :> Join(" AND ", where) ELSE EmptyDict)
        @@ ("$offset" :> offset)]

RECURSIVE detroit_pages(_, _, _, _, _, _, _, _, _, _)
\* "while len(all_restaurants) < limit and offset < 100000" of
\* _get_detroit_restaurants; an exception is raised again under another text
detroit_pages(c, where, limit, offset, env, all_restaurants, seen_restaurants, requests, attempts, sleeps) ==
    IF ~(Len(all_restaurants) < limit /\ offset < detroit_record_ceiling)
    THEN AdapterReturn(all_restaurants, requests, attempts, sleeps)
    ELSE LET r == _make_api_request(env, attempts)
             sent == Append(requests, detroit_request(c, where, limit, offset))
             p == detroit_rows(r.value, all_restaurants, seen_restaurants, limit)
         IN  IF r.kind = "raise"
             THEN AdapterRaise("Error fetching Detroit restaurant data: " \o r.message,
                               sent, attempts + r.attempts, sleeps \o r.sleeps)
             ELSE IF r.value = <<>>
             THEN AdapterReturn(all_restaurants, sent, attempts + r.attempts,
                                sleeps \o r.sleeps)
             ELSE detroit_pages(c, where, limit, offset + detroit_batch_size, env,
                                p.all_restaurants, p.seen_restaurants, sent,
                                attempts + r.attempts, sleeps \o r.sleeps)

\* if cuisines and cuisines != ["All"]: keep r with r['cuisine_type'] in cuisines
detroit_filter(restaurants, cuisines) ==
    IF ~IsNone(cuisines) /\ Val(cuisines) # <<>> /\ Val(cuisines) # <<"All">>
    THEN KeepCuisines(restaurants, Val(cuisines))
    ELSE restaurants

\* _get_detroit_restaurants(location, grades, cuisines, search_term, date_range, limit)
_get_detroit_restaurants(c, location, grades, cuisines, search_term, date_range, limit, env) ==
    IF detroit_unpack_raises(date_range)
    THEN AdapterRaise(IF Len(Val(date_range)) < 2
                      THEN "not enough values to unpack"
                      ELSE "too many values to unpack",
                      <<>>, 0, <<>>)
    ELSE LET Paged(p) ==
                 IF p.raised THEN p
                 ELSE AdapterReturn(Truncate(detroit_filter(p.ret, cuisines), limit),
                                    p.requests, p.attempts, p.sleeps)
         IN  Paged(detroit_pages(c,
                       detroit_where_conditions(location, grades, search_term, date_range),
                       limit, 0, env, <<>>, {}, <<>>, 0, <<>>))

\* _format_boston_address(item)
_format_boston_address(item) ==
    JoinAddress(<<Get(item, "address", ""), Get(item, "city", ""),
                  Get(item, "state", ""), Get(item, "zip", "")>>)

\* grade_mapping.get(grade, grade) of _process_boston_records
boston_grade(grade) ==
    CASE grade = "HE_Pass" -> "Pass"
      [] grade = "HE_Fail" -> "Fail"
      [] grade = "Active" -> "Pass"
      [] grade = "Inactive" -> "Closed"
      [] OTHER -> grade

\* The violations list of a Boston record
boston_violations(item) ==
    LET violations ==
            (IF Truthy(GetOpt(item, "violdesc")) THEN <<item["violdesc"]>> ELSE <<>>)
            \o (IF Truthy(GetOpt(item, "comments")) THEN <<item["comments"]>> ELSE <<>>)
            \o (IF Truthy(GetOpt(item, "violation"))
                THEN <<"Code: " \o item["violation"]>> ELSE <<>>)
    IN  IF violations # <<>> THEN violations ELSE <<"No violations recorded">>

\* item.get('resultdttm') or item.get('issdttm') or item.get('expdttm') or ''
boston_date(item) ==
    IF Truthy(GetOpt(item, "resultdttm")) THEN item["resultdttm"]
    ELSE IF Truthy(GetOpt(item, "issdttm")) THEN item["issdttm"]
    ELSE IF Truthy(GetOpt(item, "expdttm")) THEN item["expdttm"]
    ELSE ""

boston_restaurant(item, business_name) ==
    [id |-> "BOS_" \o Get(item, "licenseno", "") \o "_"
                \o ToString(PyHash(business_name) % 10000),
     name |-> business_name,
     address |-> _format_boston_address(item),
     cuisine_type |-> Get(item, "descript",
                          Get(item, "dbaname", Get(item, "licensecat", "Restaurant"))),
     grade |-> boston_grade(Get(item, "result",
                                Get(item, "viollevel", Get(item, "licstatus", "Unknown")))),
     score |-> Some(0),
     inspection_date |-> _safe_date_extract(Some(boston_date(item))),
     violations |-> boston_violations(item),
     boro |-> "Boston, MA " \o Get(item, "zip", ""),
     phone |-> Get(item, "phone", ""),
     inspection_type |-> "Health Inspection"]

RECURSIVE _process_boston_records(_, _)
\* _process_boston_records(records, seen_restaurants):
\* [restaurants, seen_restaurants], the set being updated in place
_process_boston_records(records, seen_restaurants) ==
    IF records = <<>>
    THEN [restaurants |-> <<>>, seen_restaurants |-> seen_restaurants]
    ELSE LET item == records[1]
             business_name == strip(Get(item, "businessname", ""), Whitespace)
             restaurant_key == lower(business_name) \o "|" \o lower(Get(item, "address", ""))
                                   \o "|" \o Get(item, "licenseno", "")
         IN  IF Len(business_name) < 2 \/ restaurant_key \in seen_restaurants
             THEN _process_boston_records(Tail(records), seen_restaurants)
             ELSE LET rest == _process_boston_records(Tail(records),
                                  seen_restaurants \cup {restaurant_key})
                  IN  [restaurants |-> <<boston_restaurant(item, business_name)>>
                                          \o rest.restaurants,
                       seen_restaurants |-> rest.seen_restaurants]

boston_batch_size == 30000
boston_max_records == 600000
boston_target == 2000

\* params['q'] of _get_boston_restaurants
boston_query(search_term) ==
    LET s == Val(search_term)
    IN  IF startswith(s, "\"") /\ endswith(s, "\"") THEN strip(s, "\"")
        ELSE IF endswith(s, "*") THEN rstrip(s, "*")
        ELSE s

boston_request(c, search_term, offset) ==
    [endpoint |-> c.current_api["base_url"],
     params |->
        ("resource_id" :> c.current_api["resource_id"])
        @@ ("limit" :> boston_batch_size)
        @@ (IF Truthy(search_term) THEN "q" :> boston_query(search_term) ELSE EmptyDict)
        @@ ("offset" :> offset)]

\* raw_data and 'result' in raw_data and 'records' in raw_data['result']
boston_has_records(raw_data) ==
    /\ raw_data # <<>>
    /\ "result" \in DOMAIN raw_data
    /\ "records" \in DOMAIN raw_data["result"]

RECURSIVE boston_pages(_, _, _, _, _, _, _, _, _)
\* "for offset in range(0, max_records, batch_size)" of _get_boston_restaurants;
\* "except Exception" ends the loop and keeps what was collected
boston_pages(c, search_term, offsets, env, all_restaurants, seen_restaurants, requests, attempts, sleeps) ==
    IF offsets = <<>>
    THEN AdapterReturn(all_restaurants, requests, attempts, sleeps)
    ELSE LET r == _make_api_request(env, attempts)
             sent == Append(requests, boston_request(c, search_term, offsets[1]))
             p == _process_boston_records(r.value["result"]["records"], seen_restaurants)
             grown == all_restaurants \o p.restaurants
         IN  IF r.kind = "raise"
             THEN AdapterReturn(all_restaurants, sent, attempts + r.attempts,
                                sleeps \o r.sleeps)
             ELSE IF ~boston_has_records(r.value) \/ r.value["result"]["records"] = <<>>
             THEN AdapterReturn(all_restaurants, sent, attempts + r.attempts,
                                sleeps \o r.sleeps)
             ELSE IF Len(grown) >= boston_target
             THEN AdapterReturn(grown, sent, attempts + r.attempts, sleeps \o r.sleeps)
             ELSE boston_pages(c, search_term, Tail(offsets), env, grown,
                               p.seen_restaurants, sent, attempts + r.attempts,
                               sleeps \o r.sleeps)

\* _get_boston_restaurants(location, grades, cuisines, search_term, date_range, limit)
_get_boston_restaurants(c, location, grades, cuisines, search_term, date_range, limit, env) ==
    LET Paged(p) ==
            AdapterReturn(Truncate(FilterCuisines(p.ret, cuisines), limit),
                          p.requests, p.attempts, p.sleeps)
    IN  Paged(boston_pages(c, search_term,
                           PyRange(0, boston_max_records, boston_batch_size),
                           env, <<>>, {}, <<>>, 0, <<>>))

---------------------------------------------------------------------------
(* get_restaurants and the search cache                                    *)

RECURSIVE EscapeForRepr(_)
\* The text of s with every backslash and single quote escaped
EscapeForRepr(s) ==
    IF s = "" THEN ""
    ELSE (IF CharAt(s, 1) = "'" \/ CharAt(s, 1) = "\\" THEN "\\" ELSE "")
            \o CharAt(s, 1) \o EscapeForRepr(Tail(s))

RECURSIVE EscapeBackslash(_)
EscapeBackslash(s) ==
    IF s = "" THEN ""
    ELSE (IF CharAt(s, 1) = "\\" THEN "\\" ELSE "") \o CharAt(s, 1)
            \o EscapeBackslash(Tail(s))

\* repr(s) of a str of printable ASCII: double quotes are used when s holds a
\* single quote and no double quote
StrRepr(s) ==
    IF Contains(s, "'") /\ ~Contains(s, "\"")
    THEN "\"" \o EscapeBackslash(s) \o "\""
    ELSE "'" \o EscapeForRepr(s) \o "'"

\* f"{value}" of a str or None
FormatStr(value) == IF IsNone(value) THEN "None" ELSE Val(value)

\* f"{value}" of a list of str or None
FormatList(value) ==
    IF IsNone(value) THEN "None"
    ELSE "[" \o Join(", ", [i \in 1..Len(Val(value)) |-> StrRepr(Val(value)[i])]) \o "]"

\* cache_key of get_restaurants
cache_key_NoLimit(jurisdiction, location, grades, search_term, limit) ==
    jurisdiction \o "_" \o FormatStr(location) \o "_" \o FormatList(grades)
        \o "_" \o FormatStr(search_term)

\* cache_key = f"{self.current_jurisdiction}_{location}_{grades}_{search_term}_{limit}"
cache_key(jurisdiction, location, grades, search_term, limit) ==
    jurisdiction \o "_" \o FormatStr(location) \o "_" \o FormatList(grades)
        \o "_" \o FormatStr(search_term) \o "_" \o ToString(limit)

\* The seconds a stored search result is served for
search_cache_seconds == 300

\* The jurisdiction-specific method get_restaurants calls
adapter(c, location, grades, cuisines, search_term, date_range, limit, env) ==
    CASE c.current_jurisdiction = "NYC" ->
            _get_nyc_restaurants(c, location, grades, cuisines, search_term, date_range, limit, env)
      [] c.current_jurisdiction = "Chicago" ->
            _get_chicago_restaurants(c, location, grades, cuisines, search_term, date_range, limit, env)
      [] c.current_jurisdiction = "Boston" ->
            _get_boston_restaurants(c, location, grades, cuisines, search_term, date_range, limit, env)
      [] c.current_jurisdiction = "Austin" ->
            _get_austin_restaurants(c, location, grades, cuisines, search_term, date_range, limit, env)
      [] c.current_jurisdiction = "Seattle" ->
            _get_seattle_restaurants(c, location, grades, cuisines, search_term, date_range, limit, env)
      [] c.current_jurisdiction = "Detroit" ->
            _get_detroit_restaurants(c, location, grades, cuisines, search_term, date_range, limit, env)
      [] c.current_jurisdiction = "Los Angeles" ->
            _get_losangeles_restaurants(c, location, grades, cuisines, search_term, date_range, limit, env)
      [] c.current_jurisdiction = "Dallas" ->
            _get_dallas_restaurants(c, location, grades, cuisines, search_term, date_range, limit, env)
      [] c.current_jurisdiction = "Virginia" ->
            _get_virginia_restaurants(c, location, grades, cuisines, search_term, date_range, limit, env)

\* The jurisdictions get_restaurants has a branch for
Dispatched ==
    {"NYC", "Chicago", "Boston", "Austin", "Seattle", "Detroit", "Los Angeles",
     "Dallas", "Virginia"}

Outcome_EmptyIsError(c, raised, message, ret, hit, requests, attempts, sleeps) ==
    [client |-> c, raised |-> raised \/ (~hit /\ ret = <<>>),
     message |-> IF raised THEN message ELSE "No restaurants found",
     ret |-> ret, hit |-> hit,
     requests |-> requests, attempts |-> attempts, sleeps |-> sleeps]

\* What a get_restaurants call comes to
Outcome(c, raised, message, ret, hit, requests, attempts, sleeps) ==
    [client |-> c, raised |-> raised, message |-> message, ret |-> ret, hit |-> hit,
     requests |-> requests, attempts |-> attempts, sleeps |-> sleeps]

get_restaurants_NeverExpires(c, location, grades, cuisines, search_term, date_range, limit, env, t) ==
    LET Fetched(key, all_data) ==
            IF all_data.raised
            THEN Outcome(c, TRUE, "Failed to fetch restaurant data: " \o all_data.message,
                         <<>>, FALSE, all_data.requests, all_data.attempts,
                         all_data.sleeps)
            ELSE Outcome([c EXCEPT !._search_cache =
                             (key :> [cached_result |-> all_data.ret, cached_time |-> t])
                                 @@ @],
                         FALSE, "", all_data.ret, FALSE,
                         all_data.requests, all_data.attempts, all_data.sleeps)
        Keyed(key) ==
            IF key \in DOMAIN c._search_cache
            THEN Outcome(c, FALSE, "", c._search_cache[key].cached_result, TRUE,
                         <<>>, 0, <<>>)
            ELSE IF c.current_jurisdiction \notin Dispatched
            THEN Outcome(c, FALSE, "", <<>>, FALSE, <<>>, 0, <<>>)
            ELSE Fetched(key, adapter(c, location, grades, cuisines, search_term,
                                      date_range, limit, env))
    IN  Keyed(cache_key(c.current_jurisdiction, location, grades, search_term, limit))

\* get_restaurants(location, grades, cuisines, search_term, date_range, limit)
\* called at time t against a source behaving as env.  A DataFrame is the
\* sequence of its rows.  The call is taken to last no time: both readings
\* of time.time() are t.
get_restaurants(c, location, grades, cuisines, search_term, date_range, limit, env, t) ==
    LET Fetched(key, all_data) ==
            IF all_data.raised
            THEN Outcome(c, TRUE, "Failed to fetch restaurant data: " \o all_data.message,
                         <<>>, FALSE, all_data.requests, all_data.attempts,
                         all_data.sleeps)
            ELSE Outcome([c EXCEPT !._search_cache =
                             (key :> [cached_result |-> all_data.ret, cached_time |-> t])
                                 @@ @],
                         FALSE, "", all_data.ret, FALSE,
                         all_data.requests, all_data.attempts, all_data.sleeps)
        Keyed(key) ==
            IF key \in DOMAIN c._search_cache
               /\ t - c._search_cache[key].cached_time < search_cache_seconds
            THEN Outcome(c, FALSE, "", c._search_cache[key].cached_result, TRUE,
                         <<>>, 0, <<>>)
            ELSE IF c.current_jurisdiction \notin Dispatched
            THEN Outcome(c, FALSE, "", <<>>, FALSE, <<>>, 0, <<>>)
            ELSE Fetched(key, adapter(c, location, grades, cuisines, search_term,
                                      date_range, limit, env))
    IN  Keyed(cache_key(c.current_jurisdiction, location, grades, search_term, limit))

---------------------------------------------------------------------------
(* Raw rows of the sources                                                 *)

\* Rows of the NYC dataset: one restaurant inspected three times, once under
\* an upper-case spelling of its name, a second restaurant at another
\* address that has no inspection date, and a third one.
NycRows ==
    << [camis |-> "41", dba |-> "Joe's Pizza", building |-> "1", street |-> "Main St",
        boro |-> "Queens", zipcode |-> "11101", cuisine_description |-> "Pizza",
        inspection_date |-> "2024-01-10T00:00:00.000", grade |-> "B", score |-> "20",
        violation_code |-> "04L", critical_flag |-> "Y", inspection_type |-> "Cycle"],
       [camis |-> "42", dba |-> "Joe's Pizza", building |-> "1", street |-> "Main St",
        boro |-> "Queens", zipcode |-> "11102", cuisine_description |-> "Italian",
        phone |-> "7185550100",
        inspection_date |-> "2024-03-15T00:00:00.000", grade |-> "A", score |-> "9.0",
        inspection_type |-> "Re-inspection"],
       [camis |-> "41", dba |-> "JOE'S PIZZA", building |-> "1", street |-> "Main St",
        boro |-> "Queens", cuisine_description |-> "Pizza",
        inspection_date |-> "2023-11-02T00:00:00.000", grade |-> "C", score |-> "30",
        violation_description |-> "Evidence of mice"],
       [camis |-> "57", dba |-> "Joe's Pizza", building |-> "2", street |-> "Main St",
        boro |-> "Queens", cuisine_description |-> "Pizza", grade |-> "A", score |-> ""],
       [camis |-> "63", dba |-> "Thai Spot ", building |-> "7", street |-> "Elm St",
        cuisine_description |-> "Thai", inspection_date |-> "2024-02-01T00:00:00.000",
        score |-> "n/a"] >>

\* Rows of the Chicago dataset, of the same shape.
ChicagoRows ==
    << [license_ |-> "9", dba_name |-> "Joe's Pizza", address |-> "1 Main St",
        city |-> "CHICAGO", state |-> "IL", zip |-> "60601", facility_type |-> "Restaurant",
        inspection_date |-> "2024-01-10T00:00:00.000", results |-> "Pass w/ Conditions",
        risk |-> "Risk 1 (High)", violations |-> "3. NO SOAP | 5. NO TOWELS"],
       [license_ |-> "10", dba_name |-> "Joe's Pizza", address |-> "1 Main St",
        city |-> "CHICAGO", state |-> "IL", zip |-> "60602", facility_type |-> "Bakery",
        inspection_date |-> "2024-03-15T00:00:00.000", results |-> "Pass",
        risk |-> "Risk 1 (High)", inspection_type |-> "Canvass"],
       [license_ |-> "9", dba_name |-> "JOE'S PIZZA", address |-> "1 MAIN ST",
        facility_type |-> "Restaurant",
        inspection_date |-> "2023-11-02T00:00:00.000", results |-> "Fail"],
       [license_ |-> "12", dba_name |-> "Joe's Pizza", address |-> "2 Main St",
        facility_type |-> "Restaurant", results |-> "Pass"],
       [license_ |-> "15", dba_name |-> " Thai Spot", address |-> "7 Elm St",
        facility_type |-> "Bakery", inspection_date |-> "2024-02-01T00:00:00.000"] >>

\* The longest response body the fold is checked on.
MaxRows == 3

RECURSIVE SeqsUpTo(_, _)
\* The sequences over S of length at most n
SeqsUpTo(S, n) ==
    IF n = 0 THEN {<<>>}
    ELSE LET shorter == SeqsUpTo(S, n - 1)
         IN  shorter \cup {Append(s, x) : s \in shorter, x \in S}

Range(s) == {s[i] : i \in 1..Len(s)}

\* A source that answers the first attempt with body.
Answers(body) == [script |-> <<[kind |-> "ok", body |-> body]>>,
                  tail |-> [kind |-> "ok", body |-> <<>>]]

\* Rows of the other datasets: a restaurant that appears twice, and a second
\* restaurant of another kind whose name has a blank at one end.
AustinRows ==
    << [restaurant_name |-> "Joe's Pizza", address |-> "1 Main St", zip_code |-> "78701",
        score |-> "95", inspection_date |-> "2024-03-15T00:00:00.000",
        process_description |-> "Pizza", facility_id |-> "100"],
       [restaurant_name |-> "Joe's Pizza", address |-> "1 Main St", zip_code |-> "78701",
        score |-> "68", inspection_date |-> "2024-01-10T00:00:00.000",
        process_description |-> "Pizza", facility_id |-> "100"],
       [restaurant_name |-> "Thai Spot ", address |-> "7 Elm St", zip_code |-> "78702",
        score |-> "0", process_description |-> "Thai", facility_id |-> "200"] >>

SeattleRows ==
    << [name |-> "Joe's Pizza", address |-> "1 Main St", city |-> "SEATTLE",
        zip_code |-> "98101", business_id |-> "PR1", program_identifier |-> "Pizza",
        violation_points |-> "15", inspection_score |-> "20",
        inspection_date |-> "2024-03-15T00:00:00.000"],
       [name |-> "Joe's Pizza", address |-> "1 Main St", city |-> "SEATTLE",
        business_id |-> "PR1", program_identifier |-> "Pizza", violation_points |-> "0",
        inspection_score |-> "60"],
       [name |-> " Thai Spot", address |-> "7 Elm St", business_id |-> "PR2",
        program_identifier |-> "Thai", inspection_date |-> "2024-02-01T00:00:00.000"] >>

DetroitRows ==
    << [business_name |-> "Joe's Pizza", address |-> "1 Main St", city |-> "Detroit",
        state |-> "MI", zip |-> "48201", inspection_date |-> "2024-03-15T00:00:00.000",
        inspection_result |-> "Conditional Pass", violation_type |-> "Priority",
        violation_description |-> "No soap"],
       [business_name |-> "JOE'S PIZZA", address |-> "1 MAIN ST",
        inspection_date |-> "2024-01-10", inspection_result |-> "Pass"],
       [business_name |-> "Thai Spot ", address |-> "7 Elm St",
        inspection_result |-> "Fail", violation_description |-> "Mice"] >>

BostonRows ==
    << [businessname |-> "Joe's Pizza", address |-> "1 Main St", city |-> "Boston",
        state |-> "MA", zip |-> "02108", licenseno |-> "L1", result |-> "HE_Fail",
        descript |-> "Pizza", resultdttm |-> "2024-03-15 10:00:00", violdesc |-> "No soap"],
       [businessname |-> "JOE'S PIZZA", address |-> "1 MAIN ST", licenseno |-> "L1",
        viollevel |-> "*", issdttm |-> "2024-01-10 09:00:00"],
       [businessname |-> " Thai Spot", address |-> "7 Elm St", licenseno |-> "L2",
        licstatus |-> "Active", dbaname |-> "Thai"] >>

LosAngelesRows ==
    << [facility_name |-> "Joe's Pizza", facility_address |-> "1 Main St",
        zip_code |-> "90012", serial_number |-> "S1", pe_description |-> "Pizza",
        grade |-> "A", score |-> "95", activity_date |-> "2024-03-15T00:00:00.000"],
       [facility_name |-> "Joe's Pizza", facility_address |-> "1 Main St",
        serial_number |-> "S0", pe_description |-> "Pizza", grade |-> "B",
        score |-> "85", activity_date |-> "2024-01-10T00:00:00.000"],
       [facility_name |-> "Thai Spot ", facility_address |-> "7 Elm St",
        serial_number |-> "S2", pe_description |-> "Thai"] >>

DallasRows ==
    << [establishment_name |-> "Joe's Pizza", address |-> "1 Main St",
        zip_code |-> "75201", permit_number |-> "P1", establishment_type |-> "Pizza",
        score |-> "95", inspection_date |-> "2024-03-15T00:00:00.000",
        critical_violation |-> "Y"],
       [establishment_name |-> "Joe's Pizza", address |-> "1 Main St",
        permit_number |-> "P1", establishment_type |-> "Pizza", score |-> "55",
        inspection_date |-> "2024-01-10"],
       [establishment_name |-> "Thai Spot ", address |-> "7 Elm St",
        permit_number |-> "P2", establishment_type |-> "Thai"] >>

VirginiaRows ==
    << [_id |-> "v1", name |-> "Joe's Pizza", address |-> "1 Main St",
        locality |-> "Norfolk", category |-> "Pizza", score |-> "95",
        last_inspection_date |-> "2024-03-15T00:00:00.000"],
       [_id |-> "v1", name |-> "Joe's Pizza", address |-> "1 Main St",
        category |-> "Pizza", score |-> "60", inspection_notes |-> "Follow up"],
       [_id |-> "v2", name |-> " Thai Spot", address |-> "7 Elm St", city |-> "Chesapeake",
        category |-> "Thai"] >>

\* One successful response body of each source: its first and last row.
\* The Boston source wraps its rows in result.records.
Body(jurisdiction) ==
    CASE jurisdiction = "NYC" -> <<NycRows[2], NycRows[5]>>
      [] jurisdiction = "Chicago" -> <<ChicagoRows[2], ChicagoRows[5]>>
      [] jurisdiction = "Boston" ->
            [result |-> [records |-> <<BostonRows[1], BostonRows[3]>>]]
      [] jurisdiction = "Austin" -> <<AustinRows[1], AustinRows[3]>>
      [] jurisdiction = "Seattle" -> <<SeattleRows[1], SeattleRows[3]>>
      [] jurisdiction = "Detroit" -> <<DetroitRows[1], DetroitRows[3]>>
      [] jurisdiction = "Los Angeles" -> <<LosAngelesRows[1], LosAngelesRows[3]>>
      [] jurisdiction = "Dallas" -> <<DallasRows[1], DallasRows[3]>>
      [] jurisdiction = "Virginia" -> <<VirginiaRows[1], VirginiaRows[3]>>
      [] OTHER -> <<>>

\* One HTTP attempt's outcome
Attempt(kind, body) == [kind |-> kind, body |-> body]

\* Sources: one that answers, ones that fail in each way, one that answers
\* the retry after a timeout, one that fails after its first answer.
SourceOk(jurisdiction) == Answers(Body(jurisdiction))
SourceEmpty == [script |-> <<>>, tail |-> Attempt("ok", <<>>)]
\* A source that answers with zero rows in the shape of its API: a CKAN
\* envelope with no records for Boston, an empty JSON list elsewhere.
SourceEmptyOf(jurisdiction) ==
    IF jurisdiction = "Boston"
    THEN [script |-> <<>>, tail |-> Attempt("ok", [result |-> [records |-> <<>>]])]
    ELSE SourceEmpty
SourceTimeout == [script |-> <<>>, tail |-> Attempt("timeout", <<>>)]
SourceConnection ==
    [script |-> <<Attempt("timeout", <<>>)>>, tail |-> Attempt("connection", <<>>)]
SourceHttpError == [script |-> <<>>, tail |-> Attempt("http_error", <<>>)]
SourceBadJson == [script |-> <<>>, tail |-> Attempt("bad_json", <<>>)]
SourceRetryOk(jurisdiction) ==
    [script |-> <<Attempt("timeout", <<>>), Attempt("ok", Body(jurisdiction))>>,
     tail |-> Attempt("ok", <<>>)]
SourceFailsLater(jurisdiction) ==
    [script |-> <<Attempt("ok", Body(jurisdiction))>>, tail |-> Attempt("http_error", <<>>)]

---------------------------------------------------------------------------
(* The client as a state machine                                           *)

\* Raw grade values handed to get_grade_info: every key of every table, and
\* values that are in no table.
RawGrades ==
    UNION {DOMAIN apis[j].grading_system.grades : j \in Jurisdictions}
        \cup {"totally-unknown-value", "", "Conditional Pass", "Closed"}

RawRisks ==
    DOMAIN apis["Chicago"].grading_system.risk_levels \cup {"Risk 4", ""}

Init ==
    /\ \E jurisdiction \in Codes : ClientIs(NewClient(jurisdiction))
    /\ now = 0
    /\ call = [op |-> "__init__"]

SetJurisdiction ==
    \E jurisdiction \in Codes :
        LET r == set_jurisdiction(Client, jurisdiction)
        IN  /\ ClientBecomes(r.client)
            /\ call' = [op |-> "set_jurisdiction", jurisdiction |-> jurisdiction,
                        ret |-> r.ret]
            /\ UNCHANGED now

GetGradeInfo ==
    \E grade \in RawGrades :
        LET r == get_grade_info(Client, grade)
        IN  /\ call' = [op |-> "get_grade_info", grade |-> grade,
                        raised |-> r.raised, ret |-> r.ret]
            /\ UNCHANGED <<clientVars, now>>

GetRiskInfo ==
    \E risk_level \in RawRisks :
        LET r == get_risk_info(Client, risk_level)
        IN  /\ call' = [op |-> "get_risk_info", risk_level |-> risk_level,
                        raised |-> r.raised, ret |-> r.ret]
            /\ UNCHANGED <<clientVars, now>>

Next ==
    \/ SetJurisdiction
    \/ GetGradeInfo
    \/ GetRiskInfo

Spec == Init /\ [][Next]_vars

---------------------------------------------------------------------------
(* The history-building adapters applied to the bodies a source can return *)

FoldCuisines == {None, Some(<<"Pizza">>), Some(<<"All", "Thai">>)}
FoldLimits == {0, 1, MaxRows}

\* The arguments and the source's answer are drawn when the call starts.
FoldInit ==
    /\ \E jurisdiction \in {"NYC", "Chicago"} :
        /\ ClientIs(NewClient(jurisdiction))
        /\ \E raw_data \in SeqsUpTo(Range(IF jurisdiction = "NYC" THEN NycRows
                                                                  ELSE ChicagoRows), MaxRows),
              cuisines \in FoldCuisines, limit \in FoldLimits :
                call = [op |-> "pending", raw_data |-> raw_data,
                        cuisines |-> cuisines, limit |-> limit]
    /\ now = 0

CallNyc ==
    /\ call.op = "pending"
    /\ current_jurisdiction = "NYC"
    /\ LET r == _get_nyc_restaurants(Client, None, None, call.cuisines, None, None,
                                     call.limit, Answers(call.raw_data))
       IN  call' = [op |-> "_get_nyc_restaurants", raw_data |-> call.raw_data,
                    cuisines |-> call.cuisines, limit |-> call.limit,
                    raised |-> r.raised, ret |-> r.ret]
    /\ UNCHANGED <<clientVars, now>>

CallChicago ==
    /\ call.op = "pending"
    /\ current_jurisdiction = "Chicago"
    /\ LET r == _get_chicago_restaurants(Client, None, None, call.cuisines, None, None,
                                         call.limit, Answers(call.raw_data))
       IN  call' = [op |-> "_get_chicago_restaurants", raw_data |-> call.raw_data,
                    cuisines |-> call.cuisines, limit |-> call.limit,
                    raised |-> r.raised, ret |-> r.ret]
    /\ UNCHANGED <<clientVars, now>>

FoldNext ==
    \/ CallNyc
    \/ CallChicago

SpecFold == FoldInit /\ [][FoldNext]_vars

---------------------------------------------------------------------------
(* Properties of the history-building adapters                             *)

FoldDone == call.op \in {"_get_nyc_restaurants", "_get_chicago_restaurants"}

\* No cuisine filter and a limit that cuts nothing off.
FoldUnfiltered == IsNone(call.cuisines) /\ call.limit >= Len(call.raw_data)

\* The identity tuple of a raw row, compared case-insensitively.
IdentityTuple(item) ==
    IF call.op = "_get_nyc_restaurants"
    THEN <<lower(strip(Get(item, "dba", ""), Whitespace)),
           lower(Get(item, "building", "")), lower(Get(item, "street", ""))>>
    ELSE <<lower(strip(Get(item, "dba_name", ""), Whitespace)),
           lower(Get(item, "address", ""))>>

\* The adapter's key of a raw row.
RowKey(item) ==
    IF call.op = "_get_nyc_restaurants" THEN nyc_restaurant_key(item)
    ELSE chicago_restaurant_key(item)

RowGrade(item) ==
    IF call.op = "_get_nyc_restaurants" THEN nyc_inspection(item).grade
    ELSE chicago_inspection(item).grade

\* YYYY-MM-DD
IsIsoDate(s) ==
    /\ Len(s) = 10
    /\ \A i \in {1, 2, 3, 4, 6, 7, 9, 10} : IsDigit(CharAt(s, i))
    /\ CharAt(s, 5) = "-" /\ CharAt(s, 8) = "-"

\* C1: with no cuisine filter and a limit of at least the number of rows, the
\* NYC and Chicago adapters return as many restaurants as the raw rows have
\* distinct (name, address) identity tuples compared case-insensitively.
C1_DedupCaseInsensitive ==
    (FoldDone /\ FoldUnfiltered) =>
        Len(call.ret) = Cardinality({IdentityTuple(call.raw_data[i]) :
                                        i \in 1..Len(call.raw_data)})

\* C2: in every restaurant the NYC and Chicago adapters return, the
\* inspections are in descending order of inspection_date (string
\* comparison), whatever order the raw rows arrived in.
C2_InspectionsDescending ==
    FoldDone =>
        \A n \in 1..Len(call.ret) :
            \A i \in 1..(Len(call.ret[n].inspections) - 1) :
                StrGeq(call.ret[n].inspections[i].inspection_date,
                       call.ret[n].inspections[i + 1].inspection_date)

\* Two rows of one restaurant with well-formed dates arrive oldest first and
\* are returned newest first.
C2_Witness ==
    /\ call.op = "_get_chicago_restaurants"
    /\ Len(call.raw_data) = 2
    /\ RowKey(call.raw_data[1]) = RowKey(call.raw_data[2])
    /\ IsIsoDate(DateOf(call.raw_data[1], "inspection_date"))
    /\ IsIsoDate(DateOf(call.raw_data[2], "inspection_date"))
    /\ StrLess(DateOf(call.raw_data[1], "inspection_date"),
               DateOf(call.raw_data[2], "inspection_date"))
    /\ Len(call.ret) = 1
    /\ Len(call.ret[1].inspections) = 2

\* Two rows of one restaurant with distinct well-formed dates, in either
\* arrival order, and nothing filtered or cut off.
TwoInspectionScenario ==
    /\ FoldDone
    /\ IsNone(call.cuisines) /\ call.limit >= 1
    /\ Len(call.raw_data) = 2
    /\ RowKey(call.raw_data[1]) = RowKey(call.raw_data[2])
    /\ IsIsoDate(DateOf(call.raw_data[1], "inspection_date"))
    /\ IsIsoDate(DateOf(call.raw_data[2], "inspection_date"))
    /\ DateOf(call.raw_data[1], "inspection_date") # DateOf(call.raw_data[2], "inspection_date")

\* Of the scenario's two rows, the one with the later date.
LaterRow ==
    IF StrLess(DateOf(call.raw_data[1], "inspection_date"),
               DateOf(call.raw_data[2], "inspection_date"))
    THEN call.raw_data[2] ELSE call.raw_data[1]
EarlierRow ==
    IF LaterRow = call.raw_data[2] THEN call.raw_data[1] ELSE call.raw_data[2]

\* C3: every restaurant the NYC and Chicago adapters return carries the
\* grade, score, inspection_date, violations and inspection_type of its
\* inspections[0]; two rows of one restaurant yield one restaurant whose grade
\* is the later row's and whose inspections are the later, then the earlier.
C3_CompatibilityMirror ==
    /\ FoldDone =>
        \A n \in 1..Len(call.ret) :
            LET r == call.ret[n]
            IN  /\ r.inspections # <<>>
                /\ r.grade = r.inspections[1].grade
                /\ r.score = r.inspections[1].score
                /\ r.inspection_date = r.inspections[1].inspection_date
                /\ r.violations = r.inspections[1].violations
                /\ r.inspection_type = r.inspections[1].inspection_type
    /\ TwoInspectionScenario =>
        /\ Len(call.ret) = 1
        /\ call.ret[1].grade = RowGrade(LaterRow)
        /\ Len(call.ret[1].inspections) = 2
        /\ call.ret[1].inspections[1].inspection_date = DateOf(LaterRow, "inspection_date")
        /\ call.ret[1].inspections[2].inspection_date = DateOf(EarlierRow, "inspection_date")

\* The spec's scenario: Joe's Pizza dated 2024-01-10 (B) then 2024-03-15 (A).
C3_Witness ==
    /\ call.op = "_get_nyc_restaurants"
    /\ TwoInspectionScenario
    /\ DateOf(call.raw_data[1], "inspection_date") = "2024-01-10"
    /\ RowGrade(call.raw_data[1]) = "B"
    /\ DateOf(call.raw_data[2], "inspection_date") = "2024-03-15"
    /\ call.ret[1].grade = "A"


\* The indices of the rows that are the first of their restaurant_key
FirstSeen ==
    SelectSeq([i \in 1..Len(call.raw_data) |-> i],
              LAMBDA i : \A j \in 1..(i - 1) : RowKey(call.raw_data[j]) # RowKey(call.raw_data[i]))

\* The entry a first-seen row creates and the inspection record of a row
RowSeed(item) ==
    IF call.op = "_get_nyc_restaurants" THEN nyc_new_restaurant(item)
    ELSE chicago_new_restaurant(item)
RowInspection(item) ==
    IF call.op = "_get_nyc_restaurants" THEN nyc_inspection(item)
    ELSE chicago_inspection(item)

RowsOfKey(key) == {i \in 1..Len(call.raw_data) : RowKey(call.raw_data[i]) = key}

RECURSIVE TotalInspections(_)
TotalInspections(restaurants) ==
    IF restaurants = <<>> THEN 0
    ELSE Len(restaurants[1].inspections) + TotalInspections(Tail(restaurants))

\* C20: before cuisine filtering and truncation, the NYC and Chicago folds
\* give every raw row exactly one inspection in exactly one restaurant: the
\* inspections total the number of rows, every restaurant has at least one
\* and holds the inspections of the rows of its key; the name, address,
\* cuisine, phone and id of a restaurant are those of its first-seen row.
C20_FoldConservation ==
    (FoldDone /\ FoldUnfiltered) =>
        /\ TotalInspections(call.ret) = Len(call.raw_data)
        /\ Len(call.ret) = Len(FirstSeen)
        /\ \A n \in 1..Len(call.ret) :
             \A first \in {call.raw_data[FirstSeen[n]]} :
                /\ Len(call.ret[n].inspections) >= 1
                /\ Len(call.ret[n].inspections) = Cardinality(RowsOfKey(RowKey(first)))
                /\ \A i \in RowsOfKey(RowKey(first)) :
                       RowInspection(call.raw_data[i]) \in Range(call.ret[n].inspections)
                /\ call.ret[n].name = RowSeed(first).name
                /\ call.ret[n].address = RowSeed(first).address
                /\ call.ret[n].cuisine_type = RowSeed(first).cuisine_type
                /\ call.ret[n].phone = RowSeed(first).phone
                /\ call.ret[n].id = RowSeed(first).id

\* Two rows of one restaurant, the later with another id, address, cuisine
\* and phone: one restaurant of two inspections with the first row's fields.
C20_Witness ==
    /\ call.op = "_get_nyc_restaurants"
    /\ FoldUnfiltered
    /\ Len(call.raw_data) = 3
    /\ RowKey(call.raw_data[1]) = RowKey(call.raw_data[2])
    /\ RowKey(call.raw_data[3]) # RowKey(call.raw_data[1])
    /\ RowSeed(call.raw_data[2]).id # RowSeed(call.raw_data[1]).id
    /\ RowSeed(call.raw_data[2]).address # RowSeed(call.raw_data[1]).address
    /\ RowSeed(call.raw_data[2]).cuisine_type # RowSeed(call.raw_data[1]).cuisine_type
    /\ RowSeed(call.raw_data[2]).phone # RowSeed(call.raw_data[1]).phone
    /\ Len(call.ret) = 2
    /\ Len(call.ret[1].inspections) = 2
    /\ call.ret[1].id = RowSeed(call.raw_data[1]).id
    /\ call.ret[1].phone = RowSeed(call.raw_data[1]).phone

---------------------------------------------------------------------------
(* The filter expression the adapters build from the search term           *)

\* The adapters that build a $where expression.
WhereAdapters == {"NYC", "Chicago", "Austin", "Detroit", "Los Angeles", "Dallas"}

\* The longest search term drawn from the alphabet.
MaxTermLen == 3

TermAlphabet == {"\"", "*", "a", "B"}

RECURSIVE StringsUpTo(_, _)
\* The strings over alphabet S of length at most n
StringsUpTo(S, n) ==
    IF n = 0 THEN {""}
    ELSE LET shorter == StringsUpTo(S, n - 1)
         IN  shorter \cup {s \o x : s \in shorter, x \in S}

SearchTerms ==
    {None} \cup {Some(s) : s \in StringsUpTo(TermAlphabet, MaxTermLen)
                                    \cup {"\"Joe's Pizza\"", "Joe*", "Joe"}}

SearchLocations == {None, Some("Queens"), Some("Downtown (75201)")}

SearchInit ==
    /\ ClientIs(NewClient("NYC"))
    /\ now = 0
    /\ \E j \in WhereAdapters, search_term \in SearchTerms, location \in SearchLocations :
            call = [op |-> "pending", adapter |-> j, location |-> location,
                    search_term |-> search_term]

BuildWhere ==
    /\ call.op = "pending"
    /\ call' = [op |-> "where_conditions", adapter |-> call.adapter,
                location |-> call.location, search_term |-> call.search_term,
                where_conditions |->
                    where_conditions(call.adapter, call.location, None,
                                     call.search_term, None)]
    /\ UNCHANGED <<clientVars, now>>

SearchNext == BuildWhere

SpecSearch == SearchInit /\ [][SearchNext]_vars

\* The clauses of the filter on the restaurant-name field.
NameClauses ==
    LET prefix == "UPPER(" \o apis[call.adapter].name_field \o ") "
        OnName(clause) == startswith(clause, prefix)
    IN  SelectSeq(call.where_conditions, OnName)

\* What a name clause asks of the source: "exact" for UPPER(f) = 'X',
\* "prefix" for UPPER(f) LIKE 'X%', "substring" for UPPER(f) LIKE '%X%'; and X.
ClauseBody(clause) ==
    SubSeq(clause, Len("UPPER(" \o apis[call.adapter].name_field \o ") ") + 1, Len(clause))
ClauseMode(clause) ==
    LET body == ClauseBody(clause)
    IN  IF startswith(body, "= '") /\ endswith(body, "'") THEN "exact"
        ELSE IF startswith(body, "LIKE '%") /\ endswith(body, "%'") /\ Len(body) >= 9
        THEN "substring"
        ELSE IF startswith(body, "LIKE '") /\ endswith(body, "%'") THEN "prefix"
        ELSE "other"
ClauseTerm(clause) ==
    LET body == ClauseBody(clause)
    IN  CASE ClauseMode(clause) = "exact" -> SubSeq(body, 4, Len(body) - 1)
          [] ClauseMode(clause) = "substring" -> SubSeq(body, 8, Len(body) - 2)
          [] ClauseMode(clause) = "prefix" -> SubSeq(body, 7, Len(body) - 2)
          [] OTHER -> ""

QuoteWrapped(s) == s # "" /\ CharAt(s, 1) = "\"" /\ CharAt(s, Len(s)) = "\""
EndsInStar(s) == s # "" /\ CharAt(s, Len(s)) = "*"

\* s without the characters ch at its two ends, and without those at its end.
Inside(s, ch) ==
    LET kept == {i \in 1..Len(s) : CharAt(s, i) # ch}
    IN  IF kept = {} THEN ""
        ELSE SubSeq(s, CHOOSE i \in kept : \A k \in kept : i <= k,
                       CHOOSE i \in kept : \A k \in kept : i >= k)
BeforeTrailing(s, ch) ==
    LET kept == {i \in 1..Len(s) : CharAt(s, i) # ch}
    IN  IF kept = {} THEN ""
        ELSE SubSeq(s, 1, CHOOSE i \in kept : \A k \in kept : i >= k)

\* A non-empty search term yields exactly one name clause, whose mode and
\* text are chosen by the quote test, then the star test.
ModeSelection ==
    (call.op = "where_conditions" /\ Truthy(call.search_term)) =>
        LET s == Val(call.search_term)
        IN  /\ Len(NameClauses) = 1
            /\ QuoteWrapped(s) =>
                /\ ClauseMode(NameClauses[1]) = "exact"
                /\ ClauseTerm(NameClauses[1]) = upper(Inside(s, "\""))
            /\ (~QuoteWrapped(s) /\ EndsInStar(s)) =>
                /\ ClauseMode(NameClauses[1]) = "prefix"
                /\ ClauseTerm(NameClauses[1]) = upper(BeforeTrailing(s, "*"))
            /\ (~QuoteWrapped(s) /\ ~EndsInStar(s)) =>
                /\ ClauseMode(NameClauses[1]) = "substring"
                /\ ClauseTerm(NameClauses[1]) = upper(s)

\* A quote-wrapped text with a star as its last character inside the quotes,
\* and one with a star right after the closing quote.
StarInsideQuotes(s) == QuoteWrapped(s) /\ Len(s) >= 3 /\ CharAt(s, Len(s) - 1) = "*"
StarOutsideQuotes(s) == EndsInStar(s) /\ Len(s) >= 3 /\ QuoteWrapped(SubSeq(s, 1, Len(s) - 1))

\* C5 as stated: mode selection, and a quoted term ending in '*' inside or
\* outside the quotes is never treated as a prefix match.
C5_QuotedNeverPrefix ==
    /\ ModeSelection
    /\ (call.op = "where_conditions" /\ Truthy(call.search_term)
            /\ (StarInsideQuotes(Val(call.search_term))
                    \/ StarOutsideQuotes(Val(call.search_term)))) =>
        \A i \in 1..Len(NameClauses) : ClauseMode(NameClauses[i]) # "prefix"

\* C5 as amended: mode selection; a quote-wrapped term with the star inside
\* the quotes is an exact match, and a quoted text followed by a star is a
\* prefix match on the text with its quotes.
C5_SearchModeSelection ==
    /\ ModeSelection
    /\ (call.op = "where_conditions" /\ Truthy(call.search_term)
            /\ StarInsideQuotes(Val(call.search_term))) =>
        ClauseMode(NameClauses[1]) = "exact"
    /\ (call.op = "where_conditions" /\ Truthy(call.search_term)
            /\ StarOutsideQuotes(Val(call.search_term))) =>
        /\ ClauseMode(NameClauses[1]) = "prefix"
        /\ QuoteWrapped(ClauseTerm(NameClauses[1]))

\* The spec's exact-match example, in an adapter that also filters on the
\* location.
C5_Witness ==
    /\ call.op = "where_conditions"
    /\ call.adapter = "Detroit"
    /\ call.location = Some("Queens")
    /\ call.search_term = Some("\"Joe's Pizza\"")
    /\ Len(call.where_conditions) = 2
    /\ call.where_conditions[2] = "UPPER(business_name) = 'JOE'S PIZZA'"

---------------------------------------------------------------------------
(* Properties of the descriptor lookups                                    *)

\* C4: for every jurisdiction and every raw grade value, get_grade_info does
\* not raise; it returns the entry of the current jurisdiction's grade table
\* when the value is a key of it, and otherwise a descriptor whose label is
\* the input, whose color is the neutral gray and whose priority is
\* "medium"; the call changes no field of the client.
C4_GradeFallback ==
    [][(call'.op = "get_grade_info" /\ current_jurisdiction \in Jurisdictions) =>
          LET table == apis[current_jurisdiction].grading_system.grades
          IN  /\ ~call'.raised
              /\ IF call'.grade \in DOMAIN table
                 THEN call'.ret = table[call'.grade]
                 ELSE /\ call'.ret.label = call'.grade
                      /\ call'.ret.color = "#6b7280"
                      /\ call'.ret.priority = "medium"
              /\ UNCHANGED clientVars]_vars

\* get_grade_info has answered a value that is in no table with the fallback.
C4_Witness ==
    /\ call.op = "get_grade_info"
    /\ current_jurisdiction = "Chicago"
    /\ call.grade = "totally-unknown-value"
    /\ ~call.raised
    /\ call.ret.label = "totally-unknown-value"
    /\ call.ret.priority = "medium"

---------------------------------------------------------------------------
(* _make_api_request against the sources it can meet                       *)

\* The longest list of scripted attempt outcomes.
MaxScript == 3

FetchBody == <<NycRows[2]>>

Attempts ==
    {Attempt("ok", FetchBody)}
        \cup {Attempt(kind, <<>>) : kind \in OutcomeKinds \ {"ok"}}

FetchInit ==
    /\ ClientIs(NewClient("NYC"))
    /\ now = 0
    /\ \E script \in SeqsUpTo(Attempts, MaxScript), tail \in Attempts :
           call = [op |-> "pending", env |-> [script |-> script, tail |-> tail]]

MakeApiRequest ==
    /\ call.op = "pending"
    /\ LET r == _make_api_request(call.env, 0)
       IN  call' = [op |-> "_make_api_request", env |-> call.env, kind |-> r.kind,
                    value |-> r.value, message |-> r.message, attempts |-> r.attempts,
                    sleeps |-> r.sleeps]
    /\ UNCHANGED <<clientVars, now>>

FetchNext == MakeApiRequest

SpecFetch == FetchInit /\ [][FetchNext]_vars

Transient(attempt) == attempt.kind \in {"timeout", "connection"}

\* C10: no call of _make_api_request makes more than 3 HTTP attempts and
\* every call ends by returning a body or by raising; when the first 3
\* attempts all end in a timeout or a connection error the call makes
\* exactly 3 attempts and raises; when attempt k <= 3 is the first to
\* succeed, after transient failures only, the call returns that attempt's
\* body and has made exactly k attempts.
C10_RetryBudget ==
    call.op = "_make_api_request" =>
        /\ call.attempts <= 3
        /\ call.kind \in {"return", "raise"}
        /\ (\A n \in 1..3 : Transient(OutcomeAt(call.env, n))) =>
               (call.kind = "raise" /\ call.attempts = 3)
        /\ \A k \in 1..3 :
               (/\ OutcomeAt(call.env, k).kind = "ok"
                /\ \A n \in 1..(k - 1) : Transient(OutcomeAt(call.env, n))) =>
                   /\ call.kind = "return"
                   /\ call.value = OutcomeAt(call.env, k).body
                   /\ call.attempts = k

\* Three transient failures in a row have exhausted the budget.
C10_Witness ==
    /\ call.op = "_make_api_request"
    /\ call.env.script = <<Attempt("timeout", <<>>), Attempt("connection", <<>>),
                           Attempt("timeout", <<>>)>>
    /\ call.kind = "raise"
    /\ call.attempts = 3

\* C11: transient failures are retried after waits of 1x, 2x and 3x the base
\* delay following the 1st, 2nd and 3rd consecutive failure: every wait is
\* its rank times the base delay, k consecutive transient failures (k <= 3)
\* are followed by at least k waits, and when four attempts in a row fail
\* transiently the call raises on the 4th.
C11_BackoffSchedule ==
    call.op = "_make_api_request" =>
        /\ \A i \in 1..Len(call.sleeps) : call.sleeps[i] = i * retry_delay
        /\ \A k \in 1..3 :
               (\A n \in 1..k : Transient(OutcomeAt(call.env, n))) =>
                   Len(call.sleeps) >= k
        /\ (\A n \in 1..4 : Transient(OutcomeAt(call.env, n))) =>
               (call.kind = "raise" /\ call.attempts = 4)

\* The message _make_api_request raises with for a transient category
CategoryMessage(kind) ==
    CASE kind = "timeout" -> "Request timed out after multiple attempts"
      [] kind = "connection" ->
             "Connection failed - please check your internet connection"

\* C12: when the retries are exhausted over any mix of timeouts and
\* connection errors, the error raised reports the category of the last
\* failed attempt.
C12_LastCategoryPreserved ==
    (/\ call.op = "_make_api_request"
     /\ \A n \in 1..max_retries : Transient(OutcomeAt(call.env, n))) =>
        /\ call.kind = "raise"
        /\ call.message = CategoryMessage(OutcomeAt(call.env, call.attempts).kind)
        /\ call.attempts = max_retries

\* Two connection errors and then a timeout: the call raises as a timeout.
C12_Witness ==
    /\ call.op = "_make_api_request"
    /\ call.env.script = <<Attempt("connection", <<>>), Attempt("connection", <<>>),
                           Attempt("timeout", <<>>)>>
    /\ call.kind = "raise"
    /\ call.message = "Request timed out after multiple attempts"

NonRetryable(attempt) == attempt.kind \in {"http_error", "bad_json"}

\* C13: when attempt k is the first to end in a non-2xx response or a
\* malformed body, after transient failures only, the call raises after
\* exactly k attempts, and has waited only after the k - 1 transient
\* failures before it.
C13_NonRetryableImmediate ==
    call.op = "_make_api_request" =>
        \A k \in 1..max_retries :
            (/\ NonRetryable(OutcomeAt(call.env, k))
             /\ \A n \in 1..(k - 1) : Transient(OutcomeAt(call.env, n))) =>
                /\ call.kind = "raise"
                /\ call.attempts = k
                /\ Len(call.sleeps) = k - 1
                /\ call.message \in {"API request failed", "Invalid API response format"}

\* A non-2xx response on the retry that followed a timeout.
C13_Witness ==
    /\ call.op = "_make_api_request"
    /\ Len(call.env.script) >= 2
    /\ call.env.script[1].kind = "timeout"
    /\ call.env.script[2].kind = "http_error"
    /\ call.kind = "raise"
    /\ call.attempts = 2
    /\ call.sleeps = <<retry_delay>>

---------------------------------------------------------------------------
(* A session of searches: get_restaurants calls and the clock between them *)

\* The most get_restaurants calls a session makes.
MaxCalls == 2
\* The latest time the clock reaches.
MaxNow == 300

BaseFilters ==
    [location |-> None, grades |-> None, cuisines |-> None, search_term |-> None,
     date_range |-> None, limit |-> 100]

\* Filters that differ from BaseFilters in one field each.
FilterVariants ==
    {[BaseFilters EXCEPT !.location = Some("Queens")],
     [BaseFilters EXCEPT !.grades = Some(<<"A">>)],
     [BaseFilters EXCEPT !.cuisines = Some(<<"Thai">>)],
     [BaseFilters EXCEPT !.search_term = Some("Joe")],
     [BaseFilters EXCEPT !.date_range =
         Some(<<[year |-> 2024, month |-> 1, day |-> 1],
                [year |-> 2024, month |-> 12, day |-> 31]>>)],
     [BaseFilters EXCEPT !.limit = 50]}

\* The searches made in a jurisdiction: the base search against every
\* source, each variant against the source that answers.
Queries(jurisdiction) ==
    {[filters |-> BaseFilters, env |-> env] :
        env \in {SourceOk(jurisdiction), SourceEmpty, SourceEmptyOf(jurisdiction),
                 SourceTimeout, SourceConnection,
                 SourceHttpError, SourceBadJson, SourceRetryOk(jurisdiction),
                 SourceFailsLater(jurisdiction)}}
    \cup {[filters |-> f, env |-> SourceOk(jurisdiction)] : f \in FilterVariants}

\* The calls the session has made
CallsMade == IF call.op = "get_restaurants" THEN call.n ELSE 0

\* cached_time of the entry the client holds under key, if it holds one
CachedTime(c, key) ==
    IF key \in DOMAIN c._search_cache THEN Some(c._search_cache[key].cached_time)
    ELSE None

GetRestaurants ==
    /\ CallsMade < MaxCalls
    /\ \E q \in Queries(current_jurisdiction) :
        \E r \in {get_restaurants(Client, q.filters.location, q.filters.grades,
                                   q.filters.cuisines, q.filters.search_term,
                                   q.filters.date_range, q.filters.limit, q.env, now)} :
            /\ ClientBecomes(r.client)
            /\ call' = [op |-> "get_restaurants", n |-> CallsMade + 1,
                        jurisdiction |-> current_jurisdiction,
                        filters |-> q.filters, env |-> q.env, time |-> now,
                        cache_key |-> cache_key(current_jurisdiction, q.filters.location,
                                                q.filters.grades, q.filters.search_term,
                                                q.filters.limit),
                        found |-> CachedTime(Client,
                                      cache_key(current_jurisdiction, q.filters.location,
                                                q.filters.grades, q.filters.search_term,
                                                q.filters.limit)),
                        raised |-> r.raised, message |-> r.message, ret |-> r.ret,
                        hit |-> r.hit, requests |-> r.requests, attempts |-> r.attempts,
                        sleeps |-> r.sleeps]
            /\ UNCHANGED now

\* Time passes between two calls.
Tick ==
    \E seconds \in {search_cache_seconds - 1, search_cache_seconds} :
        /\ now + seconds <= MaxNow
        /\ now' = now + seconds
        /\ UNCHANGED <<clientVars, call>>

CacheNext ==
    \/ GetRestaurants
    \/ Tick

SpecCache == Init /\ [][CacheNext]_vars

\* The last HTTP attempt of the call failed, so its request raised.
FetchFailed(c) == c.attempts > 0 /\ OutcomeAt(c.env, c.attempts).kind # "ok"

\* The fields two filter records differ in
Differing(f, g) == {field \in DOMAIN f : f[field] # g[field]}

\* The call that completed last fetched its result and stored it, and no
\* other entry is in the search cache.
StoredAlone ==
    /\ call.op = "get_restaurants"
    /\ call.jurisdiction = current_jurisdiction
    /\ ~call.hit
    /\ ~call.raised
    /\ DOMAIN _search_cache = {call.cache_key}
    /\ _search_cache[call.cache_key].cached_time = call.time

\* The step is a get_restaurants call that follows the call recorded in
\* call, in the same jurisdiction, less than 300 seconds later.
FollowsWithinLifetime ==
    /\ StoredAlone
    /\ call'.op = "get_restaurants"
    /\ call'.jurisdiction = call.jurisdiction
    /\ call'.time - call.time < 300

\* C6: a get_restaurants call that follows, within the cache lifetime and in
\* the same jurisdiction, a call whose filters differ from its own in one of
\* location, grades, cuisines, search_term, date_range or limit is not
\* answered from the entry the earlier call stored.
C6_KeyCoversEveryFilter ==
    [][(FollowsWithinLifetime /\ Differing(call.filters, call'.filters) # {}) =>
          ~call'.hit]_vars

\* C7: when the only cached entry was stored by a call with one limit, a
\* call with the same other filters and another limit, made in the same
\* jurisdiction within the cache lifetime, is a miss: it sends its own
\* request and is not answered with the stored result.
C7_LimitInKey ==
    [][(FollowsWithinLifetime
          /\ Differing(call.filters, call'.filters) = {"limit"}
          /\ call.jurisdiction \in Dispatched) =>
          (~call'.hit /\ call'.attempts >= 1 /\ Len(call'.requests) >= 1)]_vars

\* A search with limit 50 was fetched while the result for limit 100 was
\* cached, and both entries are in the cache.
C7_Witness ==
    /\ call.op = "get_restaurants"
    /\ call.jurisdiction = "NYC"
    /\ call.filters = [BaseFilters EXCEPT !.limit = 50]
    /\ ~call.hit
    /\ call.attempts = 1
    /\ call.time = 299
    /\ cache_key("NYC", None, None, None, 100) \in DOMAIN _search_cache
    /\ _search_cache[cache_key("NYC", None, None, None, 100)].cached_time = 0
    /\ call.cache_key \in DOMAIN _search_cache
    /\ call.cache_key # cache_key("NYC", None, None, None, 100)

\* C9: a get_restaurants call whose HTTP request fails stores nothing in the
\* search cache.
C9_FailureNotCached ==
    [][(call'.op = "get_restaurants" /\ call' # call /\ FetchFailed(call')) =>
          _search_cache' = _search_cache]_vars

\* The source answered the call's request with zero rows.
AnsweredEmpty(c) ==
    /\ c.attempts = 1
    /\ c.env \in {SourceEmpty, SourceEmptyOf(c.jurisdiction)}

\* C15: in every configured jurisdiction, a get_restaurants call whose
\* request the source answers successfully with zero rows returns an empty
\* result and raises nothing.
C15_EmptyResultNotError ==
    [][(/\ call'.op = "get_restaurants"
        /\ call' # call
        /\ call'.jurisdiction \in Jurisdictions
        /\ AnsweredEmpty(call')) =>
          (~call'.raised /\ call'.ret = <<>>)]_vars

\* The Boston source answered with an envelope of no records.
C15_Witness ==
    /\ call.op = "get_restaurants"
    /\ call.jurisdiction = "Boston"
    /\ call.env = SourceEmptyOf(call.jurisdiction)
    /\ call.attempts = 1
    /\ Len(call.requests) = 1
    /\ ~call.raised
    /\ call.ret = <<>>

\* The step is a get_restaurants call that finds, under its key, the entry
\* the call recorded in call stored.
FindsStoredEntry ==
    /\ StoredAlone
    /\ call'.op = "get_restaurants"
    /\ call'.n = call.n + 1
    /\ call'.cache_key = call.cache_key

\* C16: a get_restaurants call that finds an entry stored under its key less
\* than 300 seconds earlier returns the stored result, sends no HTTP request
\* and leaves the cache as it is; one that finds an entry stored 300 seconds
\* or more earlier is a miss that sends a request to the source and, when it
\* obtains a result, stores it under the key with the time of the call.
C16_CacheExpiry ==
    [][FindsStoredEntry =>
          IF call'.time - _search_cache[call.cache_key].cached_time < 300
          THEN /\ call'.hit
               /\ ~call'.raised
               /\ call'.ret = _search_cache[call.cache_key].cached_result
               /\ call'.requests = <<>>
               /\ call'.attempts = 0
               /\ _search_cache' = _search_cache
          ELSE /\ ~call'.hit
               /\ call'.jurisdiction \in Dispatched =>
                      /\ Len(call'.requests) >= 1
                      /\ call'.attempts >= 1
                      /\ ~call'.raised =>
                             _search_cache'[call.cache_key] =
                                 [cached_result |-> call'.ret, cached_time |-> call'.time]]_vars

\* An entry stored at time 0 with rows was found again at time 300: the
\* source, now empty, was asked and the entry holds the empty result and
\* the time 300.
C16_Witness ==
    /\ call.op = "get_restaurants"
    /\ call.n = 2
    /\ call.jurisdiction = "NYC"
    /\ call.filters = BaseFilters
    /\ call.env = SourceEmpty
    /\ call.time = 300
    /\ call.found = Some(0)
    /\ ~call.hit
    /\ call.attempts = 1
    /\ DOMAIN _search_cache = {call.cache_key}
    /\ _search_cache[call.cache_key] = [cached_result |-> <<>>, cached_time |-> 300]

\* An entry stored at time 0 was served at time 299 though the source had
\* become empty.
C16_WitnessFresh ==
    /\ call.op = "get_restaurants"
    /\ call.n = 2
    /\ call.env = SourceEmpty
    /\ call.time = 299
    /\ call.found = Some(0)
    /\ call.hit
    /\ call.ret # <<>>
    /\ call.attempts = 0

---------------------------------------------------------------------------
(* The multi-jurisdiction aggregation loops                                *)

\* jurisdictions of create_city_comparison_dashboard and show_city_analytics
aggregation_jurisdictions ==
    <<"NYC", "Chicago", "Boston", "Austin", "Seattle", "Los Angeles">>

dashboard_limit == 500
analytics_limit == 300

\* What the loop has collected: city_data, the st.warning texts, the
\* jurisdictions visited and the HTTP attempts made, with the client it left
Collected(c, city_data, warnings, visited, attempts) ==
    [client |-> c, city_data |-> city_data, warnings |-> warnings, visited |-> visited,
     attempts |-> attempts]

RECURSIVE AggregateLoop_StopsAtFailure(_, _, _, _, _, _)
AggregateLoop_StopsAtFailure(c, jurisdictions, limit, envs, t, acc) ==
    IF jurisdictions = <<>> THEN Collected(c, acc.city_data, acc.warnings, acc.visited,
                                           acc.attempts)
    ELSE LET Visit(jurisdiction, r) ==
                 IF r.raised
                 THEN Collected(r.client, acc.city_data,
                                Append(acc.warnings,
                                       "Could not load data for " \o jurisdiction
                                           \o ": " \o r.message),
                                Append(acc.visited, jurisdiction),
                                acc.attempts + r.attempts)
                 ELSE AggregateLoop_StopsAtFailure(r.client, Tail(jurisdictions), limit,
                          envs, t,
                          Collected(r.client,
                                    IF r.ret # <<>>
                                    THEN (jurisdiction :> r.ret) @@ acc.city_data
                                    ELSE acc.city_data,
                                    acc.warnings, Append(acc.visited, jurisdiction),
                                    acc.attempts + r.attempts))
         IN  Visit(jurisdictions[1],
                   get_restaurants(set_jurisdiction(c, jurisdictions[1]).client,
                                   None, None, None, None, None, limit,
                                   envs[jurisdictions[1]], t))

RECURSIVE AggregateLoop(_, _, _, _, _, _)
\* "for i, jurisdiction in enumerate(jurisdictions)" over the jurisdictions
\* left: set_jurisdiction and get_restaurants(limit=limit) in a try whose
\* except shows a warning; a non-empty result enters city_data
AggregateLoop(c, jurisdictions, limit, envs, t, acc) ==
    IF jurisdictions = <<>> THEN Collected(c, acc.city_data, acc.warnings, acc.visited,
                                           acc.attempts)
    ELSE LET Visit(jurisdiction, r) ==
                 AggregateLoop(r.client, Tail(jurisdictions), limit, envs, t,
                     Collected(r.client,
                               IF ~r.raised /\ r.ret # <<>>
                               THEN (jurisdiction :> r.ret) @@ acc.city_data
                               ELSE acc.city_data,
                               IF r.raised
                               THEN Append(acc.warnings,
                                           "Could not load data for " \o jurisdiction
                                               \o ": " \o r.message)
                               ELSE acc.warnings,
                               Append(acc.visited, jurisdiction),
                               acc.attempts + r.attempts))
         IN  Visit(jurisdictions[1],
                   get_restaurants(set_jurisdiction(c, jurisdictions[1]).client,
                                   None, None, None, None, None, limit,
                                   envs[jurisdictions[1]], t))

\* create_city_comparison_dashboard() of a visualizer whose own client is c
create_city_comparison_dashboard(c, envs, t) ==
    AggregateLoop(c, aggregation_jurisdictions, dashboard_limit, envs, t,
                  Collected(c, EmptyDict, <<>>, <<>>, 0))

\* show_city_analytics() once the button is pressed, on the session's client c
show_city_analytics(c, envs, t) ==
    AggregateLoop(c, aggregation_jurisdictions, analytics_limit, envs, t,
                  Collected(c, EmptyDict, <<>>, <<>>, 0))

\* How each source behaves while the loop runs: it answers with rows, it
\* answers with no row, or every attempt times out.
AggregationSources ==
    [Range(aggregation_jurisdictions) -> {"rows", "empty", "timeout"}]

SourceOf(jurisdiction, behaviour) ==
    CASE behaviour = "rows" -> SourceOk(jurisdiction)
      [] behaviour = "empty" -> SourceEmpty
      [] behaviour = "timeout" -> SourceTimeout

AggregateInit ==
    /\ \E jurisdiction \in {"NYC", "Dallas"} : ClientIs(NewClient(jurisdiction))
    /\ now = 0
    /\ \E behaviour \in AggregationSources :
           call = [op |-> "pending",
                   envs |-> [j \in Range(aggregation_jurisdictions) |->
                                SourceOf(j, behaviour[j])]]

\* The dashboard of a new RestaurantDataVisualizer, which has a client of its
\* own; the session's client is not touched.
CityComparisonDashboard ==
    /\ call.op = "pending"
    /\ \E r \in {create_city_comparison_dashboard(NewClient("NYC"), call.envs, now)} :
           call' = [op |-> "create_city_comparison_dashboard", envs |-> call.envs,
                    limit |-> dashboard_limit, time |-> now, city_data |-> r.city_data,
                    warnings |-> r.warnings, visited |-> r.visited,
                    attempts |-> r.attempts, error |-> r.city_data = EmptyDict]
    /\ UNCHANGED <<clientVars, now>>

ShowCityAnalytics ==
    /\ call.op = "pending"
    /\ \E r \in {show_city_analytics(Client, call.envs, now)} :
           /\ ClientBecomes(r.client)
           /\ call' = [op |-> "show_city_analytics", envs |-> call.envs,
                       limit |-> analytics_limit, time |-> now, city_data |-> r.city_data,
                       warnings |-> r.warnings, visited |-> r.visited,
                       attempts |-> r.attempts, error |-> r.city_data = EmptyDict]
    /\ UNCHANGED now

AggregateNext ==
    \/ CityComparisonDashboard
    \/ ShowCityAnalytics

SpecAggregate == AggregateInit /\ [][AggregateNext]_vars

AggregateDone == call.op \in {"create_city_comparison_dashboard", "show_city_analytics"}

\* get_restaurants(limit=limit) of a client just switched to the
\* jurisdiction, with no other jurisdiction involved
FetchedAlone(jurisdiction) ==
    get_restaurants(set_jurisdiction(NewClient("NYC"), jurisdiction).client,
                    None, None, None, None, None, call.limit, call.envs[jurisdiction],
                    call.time)

\* C8: whichever jurisdictions' get_restaurants raise, both aggregation loops
\* visit all six jurisdictions in order, and city_data holds exactly the
\* jurisdictions whose own get_restaurants call returned a non-empty result,
\* each with that result.
C8_PartialFailureTolerance ==
    AggregateDone =>
        /\ call.visited = aggregation_jurisdictions
        /\ \A j \in Range(aggregation_jurisdictions) :
               /\ j \in DOMAIN call.city_data <=>
                      (~FetchedAlone(j).raised /\ FetchedAlone(j).ret # <<>>)
               /\ j \in DOMAIN call.city_data => call.city_data[j] = FetchedAlone(j).ret
        /\ Len(call.warnings) =
               Cardinality({j \in Range(aggregation_jurisdictions) : FetchedAlone(j).raised})

\* NYC and Austin raised, and the jurisdictions after each of them are in
\* city_data.
C8_Witness ==
    /\ call.op = "show_city_analytics"
    /\ FetchedAlone("NYC").raised
    /\ FetchedAlone("Austin").raised
    /\ DOMAIN call.city_data = {"Chicago", "Boston", "Seattle", "Los Angeles"}
    /\ Len(call.warnings) = 2
    /\ call.visited = aggregation_jurisdictions

---------------------------------------------------------------------------
(* The grade filter of the Chicago adapter                                 *)

\* The longest grades list drawn.
MaxGrades == 3

GradeChoices == {"A", "B", "C", "Grade Pending", "Z"}

GradesInit ==
    /\ ClientIs(NewClient("Chicago"))
    /\ now = 0
    /\ \E grades \in {None} \cup {Some(g) : g \in SeqsUpTo(GradeChoices, MaxGrades)} :
           call = [op |-> "pending", grades |-> grades]

\* The filter _get_chicago_restaurants builds for the grades alone
BuildChicagoFilter ==
    /\ call.op = "pending"
    /\ call' = [op |-> "chicago_where_conditions", grades |-> call.grades,
                where_conditions |->
                    chicago_where_conditions(None, call.grades, None, None)]
    /\ UNCHANGED <<clientVars, now>>

GradesNext == BuildChicagoFilter

SpecGrades == GradesInit /\ [][GradesNext]_vars

\* The positions in s at which sep occurs
Occurrences(s, sep) ==
    {i \in 1..(Len(s) - Len(sep) + 1) : SubSeq(s, i, i + Len(sep) - 1) = sep}

RECURSIVE SplitOn(_, _)
\* The pieces of s between the occurrences of sep, left to right
SplitOn(s, sep) ==
    IF Occurrences(s, sep) = {} THEN <<s>>
    ELSE LET At(i) == <<SubSeq(s, 1, i - 1)>>
                          \o SplitOn(SubSeq(s, i + Len(sep), Len(s)), sep)
         IN  At(CHOOSE i \in Occurrences(s, sep) :
                    \A j \in Occurrences(s, sep) : i <= j)

\* The clauses of the filter on the results field, but for the null test
ResultsClauses ==
    LET OnResults(clause) == startswith(clause, "(results=")
    IN  SelectSeq(call.where_conditions, OnResults)

\* The equality tests a parenthesised OR group is made of
Disjuncts(clause) == Range(SplitOn(SubSeq(clause, 2, Len(clause) - 1), " OR "))

\* A row whose results field is value satisfies every results clause.
RowMatches(value) ==
    \A i \in 1..Len(ResultsClauses) :
        ("results='" \o value \o "'") \in Disjuncts(ResultsClauses[i])

\* The values of the results field in the Chicago dataset
ChicagoVocabulary == DOMAIN apis["Chicago"].grading_system.grades \cup {"No Entry"}

\* The native values each common letter grade stands for in Chicago
CommonToChicago ==
    "A" :> {"Pass", "Pass w/ Conditions"}
    @@ "B" :> {"Pass w/ Conditions"}
    @@ "C" :> {"Fail", "Out of Business"}

\* C14: for every non-empty list of the common grades A, B and C the filter
\* holds one results clause, which is the OR of the equality tests on the
\* native values the listed grades map to, so that a row matches exactly
\* when its results value is one of them: "Pass w/ Conditions" alone for
\* ["B"], Pass and Pass w/ Conditions for ["A"], Fail and Out of Business
\* for ["C"].
C14_ChicagoGradeTranslation ==
    (/\ call.op = "chicago_where_conditions"
     /\ ~IsNone(call.grades)
     /\ Val(call.grades) # <<>>
     /\ Range(Val(call.grades)) \subseteq DOMAIN CommonToChicago) =>
        LET mapped == UNION {CommonToChicago[g] : g \in Range(Val(call.grades))}
        IN  /\ Len(ResultsClauses) = 1
            /\ Disjuncts(ResultsClauses[1]) = {"results='" \o v \o "'" : v \in mapped}
            /\ \A v \in ChicagoVocabulary : RowMatches(v) <=> v \in mapped

\* The filter for ["B"] is built and matches a "Pass w/ Conditions" row.
C14_Witness ==
    /\ call.op = "chicago_where_conditions"
    /\ call.grades = Some(<<"B">>)
    /\ RowMatches("Pass w/ Conditions")
    /\ ~RowMatches("Pass")

---------------------------------------------------------------------------
(* The adapters against sources of a few rows                              *)

\* The largest of the small limits an adapter is called with.
MaxLimit == 2
\* A limit above the number of restaurants any source here holds.
UnboundedLimit == 1000

AdapterLimits == 0..MaxLimit \cup {UnboundedLimit}

AdapterCuisines ==
    {None, Some(<<>>), Some(<<"All">>), Some(<<"Thai">>), Some(<<"All", "Thai">>),
     Some(<<"Restaurant", "Pizza">>)}

RowsOf(jurisdiction) ==
    CASE jurisdiction = "NYC" -> NycRows
      [] jurisdiction = "Chicago" -> ChicagoRows
      [] jurisdiction = "Boston" -> BostonRows
      [] jurisdiction = "Austin" -> AustinRows
      [] jurisdiction = "Seattle" -> SeattleRows
      [] jurisdiction = "Detroit" -> DetroitRows
      [] jurisdiction = "Los Angeles" -> LosAngelesRows
      [] jurisdiction = "Dallas" -> DallasRows
      [] jurisdiction = "Virginia" -> VirginiaRows

\* A response body holding rows, in the shape of the jurisdiction's API
Wrap(jurisdiction, rows) ==
    IF jurisdiction = "Boston" THEN [result |-> [records |-> rows]] ELSE rows

\* A source that answers the first request with all its rows and every
\* later request with none.
OnePage(jurisdiction, rows) ==
    [script |-> <<Attempt("ok", Wrap(jurisdiction, rows))>>,
     tail |-> Attempt("ok", Wrap(jurisdiction, <<>>))]

\* A source that answers the first request with its first row, the second
\* with the rows after it, and every later request with none.
TwoPages(jurisdiction) ==
    [script |-> <<Attempt("ok", Wrap(jurisdiction, <<RowsOf(jurisdiction)[1]>>)),
                  Attempt("ok", Wrap(jurisdiction, Tail(RowsOf(jurisdiction))))>>,
     tail |-> Attempt("ok", Wrap(jurisdiction, <<>>))]

\* A source whose second request fails, after a first page of one row.
SecondPageFails(jurisdiction) ==
    [script |-> <<Attempt("ok", Wrap(jurisdiction, <<RowsOf(jurisdiction)[1]>>))>>,
     tail |-> Attempt("http_error", <<>>)]

AdapterSources(jurisdiction) ==
    {OnePage(jurisdiction, rows) :
        rows \in SeqsUpTo(Range(RowsOf(jurisdiction)), MaxRows)}
    \cup {TwoPages(jurisdiction), SecondPageFails(jurisdiction), SourceTimeout,
          SourceHttpError}

AdaptersInit ==
    /\ \E jurisdiction \in Dispatched : ClientIs(NewClient(jurisdiction))
    /\ now = 0
    /\ \E cuisines \in AdapterCuisines, limit \in AdapterLimits,
          env \in AdapterSources(current_jurisdiction) :
           call = [op |-> "pending", cuisines |-> cuisines, limit |-> limit, env |-> env]

\* The jurisdiction-specific method of the client's jurisdiction, called
\* with a cuisine filter and a limit
CallAdapter ==
    /\ call.op = "pending"
    /\ \E r \in {adapter(Client, None, None, call.cuisines, None, None, call.limit,
                         call.env)} :
           call' = [op |-> "adapter", jurisdiction |-> current_jurisdiction,
                    cuisines |-> call.cuisines, limit |-> call.limit, env |-> call.env,
                    raised |-> r.raised, message |-> r.message, ret |-> r.ret,
                    requests |-> r.requests, attempts |-> r.attempts,
                    sleeps |-> r.sleeps]
    /\ UNCHANGED <<clientVars, now>>

AdaptersNext == CallAdapter

SpecAdapters == AdaptersInit /\ [][AdaptersNext]_vars

AdapterDone == call.op = "adapter"

\* The source answered the first request with all its rows.
SinglePage ==
    call.env \in {OnePage(call.jurisdiction, rows) :
                     rows \in SeqsUpTo(Range(RowsOf(call.jurisdiction)), MaxRows)}

\* The restaurants the same call returns under a limit no source reaches
Untruncated ==
    adapter(NewClient(call.jurisdiction), None, None, call.cuisines, None, None,
            UnboundedLimit, call.env).ret

FirstN(list, n) == [i \in 1..(IF Len(list) < n THEN Len(list) ELSE n) |-> list[i]]

\* C17: for every adapter and every limit >= 0, the returned sequence has
\* at most limit restaurants, and it is the first limit elements, in order,
\* of the deduplicated and cuisine-filtered sequence of the source's rows.
C17_Truncation ==
    (AdapterDone /\ ~call.raised) =>
        /\ Len(call.ret) <= call.limit
        /\ SinglePage => call.ret = FirstN(Untruncated, call.limit)

\* A call whose limit cuts a filtered sequence of more restaurants
C17_Witness ==
    /\ AdapterDone
    /\ ~call.raised
    /\ SinglePage
    /\ call.cuisines = Some(<<"Restaurant", "Pizza">>)
    /\ call.limit = 1
    /\ Len(Untruncated) > 1
    /\ call.ret = <<Untruncated[1]>>

\* The restaurants the same call returns when no cuisine is asked for
Unfiltered ==
    adapter(NewClient(call.jurisdiction), None, None, None, None, None, UnboundedLimit,
            call.env).ret

\* The cuisines asked for: a non-empty list without the "All" sentinel
AsksForCuisines(cuisines) ==
    /\ ~IsNone(cuisines)
    /\ Val(cuisines) # <<>>
    /\ "All" \notin Range(Val(cuisines))

\* C18: in every adapter, a non-empty cuisine list without "All" leaves
\* exactly the restaurants whose cuisine_type is in the list (none of them
\* dropped); a list that is None, empty or contains "All" removes none.
C18_CuisineFilter ==
    (AdapterDone /\ ~call.raised /\ SinglePage /\ call.limit = UnboundedLimit) =>
        IF AsksForCuisines(call.cuisines)
        THEN /\ \A i \in 1..Len(call.ret) :
                    call.ret[i].cuisine_type \in Range(Val(call.cuisines))
             /\ \A i \in 1..Len(Unfiltered) :
                    Unfiltered[i].cuisine_type \in Range(Val(call.cuisines))
                        => Unfiltered[i] \in Range(call.ret)
        ELSE call.ret = Unfiltered

\* The same property for every adapter but Detroit's
C18_CuisineFilterElsewhere ==
    call.op = "adapter" /\ call.jurisdiction # "Detroit" => C18_CuisineFilter

\* Detroit's filter tests cuisines != ["All"], not membership of "All"
C18_DetroitSentinelAlone ==
    (AdapterDone /\ ~call.raised /\ SinglePage /\ call.limit = UnboundedLimit
        /\ call.jurisdiction = "Detroit") =>
        IF ~IsNone(call.cuisines) /\ Val(call.cuisines) \notin {<<>>, <<"All">>}
        THEN call.ret = SelectSeq(Unfiltered,
                                  LAMBDA r : r.cuisine_type \in Range(Val(call.cuisines)))
        ELSE call.ret = Unfiltered

Paging == {"Seattle", "Detroit", "Boston"}

\* The size of the page a paging adapter asks for
PageSize(jurisdiction) ==
    CASE jurisdiction = "Seattle" -> seattle_batch_size
      [] jurisdiction = "Detroit" -> detroit_batch_size
      [] jurisdiction = "Boston" -> boston_batch_size

\* The rows of the page that answers the call's k-th request
PageRows(k) ==
    IF call.jurisdiction = "Boston" THEN OutcomeAt(call.env, k).body.result.records
    ELSE OutcomeAt(call.env, k).body

\* The call's first k requests were all answered with a page.
AnsweredUpTo(k) == \A n \in 1..k : OutcomeAt(call.env, n).kind = "ok"

\* C19: in the paging adapters a page with fewer rows than the page size
\* ends the paging: a short non-empty page is the last request of the call.
C19_ShortPageIsLast ==
    (AdapterDone /\ call.jurisdiction \in Paging) =>
        \A k \in 1..Len(call.requests) :
            (/\ AnsweredUpTo(k)
             /\ PageRows(k) # <<>>
             /\ Len(PageRows(k)) < PageSize(call.jurisdiction)) => k = Len(call.requests)

\* What the loops do stop on: an empty page is the last request of the call.
C19_EmptyPageIsLast ==
    (AdapterDone /\ call.jurisdiction \in Paging) =>
        \A k \in 1..Len(call.requests) :
            (AnsweredUpTo(k) /\ PageRows(k) = <<>>) => k = Len(call.requests)

---------------------------------------------------------------------------
(* Errors of the Fetch Client in a direct get_restaurants call             *)

\* C21: in every jurisdiction, a get_restaurants call whose request raised
\* in _make_api_request raises itself; it does not return an empty or a
\* partial result.
C21_ErrorPropagation ==
    (call.op = "get_restaurants" /\ FetchFailed(call)) => call.raised

\* The adapters that catch the error of the request
Catching == {"Boston", "Dallas", "Virginia"}

\* The same property for the jurisdictions whose adapter does not catch
C21_PropagationElsewhere ==
    (call.op = "get_restaurants" /\ call.jurisdiction \notin Catching)
        => C21_ErrorPropagation

\* What the catching adapters do: the call returns normally, Dallas and
\* Virginia with no restaurant, Boston with those of the pages before.
C21_CaughtReturnsNormally ==
    (call.op = "get_restaurants" /\ FetchFailed(call) /\ call.jurisdiction \in Catching)
        => /\ ~call.raised
           /\ call.jurisdiction # "Boston" => call.ret = <<>>

---------------------------------------------------------------------------
(* A session of the analytics page: switches, searches and trend analyses  *)

\* The most calls a session makes.
MaxSteps == 3

\* The codes the client is constructed with and switched to
SessionCodes == {"NYC", "Chicago", "Mars"}

\* jurisdictions of show_inspection_trends
trend_jurisdictions == {"NYC", "Chicago", "Boston", "Austin", "Seattle", "Los Angeles"}
trends_limit == 500
default_limit == 1000

SessionSources(jurisdiction) ==
    IF jurisdiction \in Dispatched THEN {SourceOk(jurisdiction), SourceTimeout}
    ELSE {SourceEmpty}

\* pd.to_datetime(value, errors='coerce'): the date, or NaT (None)
to_datetime(value) == IF IsIsoDate(value) THEN Some(value) ELSE None

\* restaurants_df['inspection_date_parsed'] = pd.to_datetime(...): the
\* DataFrame object itself gains the column
WithParsedDates(df) ==
    [i \in 1..Len(df) |->
        [k \in DOMAIN df[i] \cup {"inspection_date_parsed"} |->
            IF k = "inspection_date_parsed" THEN to_datetime(df[i].inspection_date)
            ELSE df[i][k]]]

\* The client after the caller changed, in place, the DataFrame that
\* get_restaurants returned: the cache entry under key holds that same object
MutatedInPlace(c, key, df) ==
    IF key \in DOMAIN c._search_cache
    THEN [c EXCEPT !._search_cache[key].cached_result = df]
    ELSE c

RECURSIVE InsertSorted(_, _)
InsertSorted(sorted, x) ==
    IF sorted = <<>> THEN <<x>>
    ELSE IF StrLess(x, sorted[1]) THEN <<x>> \o sorted
    ELSE <<sorted[1]>> \o InsertSorted(Tail(sorted), x)

RECURSIVE Sorted(_)
\* sorted(locations)
Sorted(locations) ==
    IF locations = <<>> THEN <<>>
    ELSE InsertSorted(Sorted(SubSeq(locations, 1, Len(locations) - 1)),
                      locations[Len(locations)])

standard_boroughs == <<"Manhattan", "Brooklyn", "Queens", "Bronx", "Staten Island">>

RECURSIVE AppendMissing(_, _)
\* "for borough in standard_boroughs: if borough not in locations: append"
AppendMissing(locations, boroughs) ==
    IF boroughs = <<>> THEN locations
    ELSE AppendMissing(IF boroughs[1] \in Range(locations) THEN locations
                       ELSE Append(locations, boroughs[1]), Tail(boroughs))

\* [item['boro'] for item in data if item.get('boro') and item['boro'].strip() and item['boro'] != '0']
nyc_boros(data) ==
    LET Listed(item) ==
            /\ "boro" \in DOMAIN item
            /\ item["boro"] # ""
            /\ strip(item["boro"], Whitespace) # ""
            /\ item["boro"] # "0"
        kept == SelectSeq(data, Listed)
    IN  [i \in 1..Len(kept) |-> kept[i]["boro"]]

\* The locations listed for a jurisdiction without a request
static_locations(jurisdiction) ==
    CASE jurisdiction = "Chicago" ->
            <<"North Side", "South Side", "West Side", "Downtown", "Loop", "Near North",
              "Near South", "Far North", "Far South">>
      [] jurisdiction = "Boston" ->
            <<"Back Bay", "Beacon Hill", "Charlestown", "Chinatown", "Dorchester",
              "East Boston", "Fenway", "North End", "Roxbury", "South End">>
      [] jurisdiction = "Austin" ->
            <<"Downtown (78701)", "East Austin (78702)", "South Austin (78704)",
              "West Austin (78703)", "North Austin (78751)", "Cedar Park (78613)">>
      [] jurisdiction = "Seattle" ->
            <<"Capitol Hill", "Ballard", "Fremont", "Queen Anne", "Belltown",
              "University District", "Georgetown", "Pioneer Square", "SoDo">>
      [] jurisdiction = "Detroit" ->
            <<"Downtown", "Midtown", "Eastern Market", "Corktown", "Riverfront",
              "New Center", "Belle Isle", "Southwest", "Westside">>
      [] jurisdiction = "Los Angeles" ->
            <<"Downtown", "Hollywood", "Beverly Hills", "Santa Monica", "West Hollywood",
              "Pasadena", "Glendale", "Burbank", "Long Beach">>
      [] jurisdiction = "Dallas" ->
            <<"Downtown (75201)", "Deep Ellum (75226)", "Uptown (75204)",
              "Oak Lawn (75219)", "Bishop Arts (75208)", "Lower Greenville (75206)",
              "Knox/Henderson (75205)", "Lakewood (75214)", "White Rock (75218)">>
      [] jurisdiction = "Virginia" ->
            <<"Norfolk", "Virginia Beach", "Chesapeake", "Portsmouth", "Suffolk",
              "Hampton", "Newport News">>
      [] OTHER -> <<>>

\* get_available_locations(): [client, ret, attempts].  _cache_timestamp is
\* never set, so _is_cache_valid() is False and the list is always rebuilt;
\* when the NYC request raises, the defaults are returned and nothing is stored.
get_available_locations(c, env) ==
    LET Stored(locations, attempts) ==
            [client |-> [c EXCEPT !._location_cache =
                            (c.current_jurisdiction :> Sorted(locations)) @@ @],
             ret |-> Sorted(locations), attempts |-> attempts]
        Asked(r) ==
            IF r.kind = "raise"
            THEN [client |-> c, ret |-> standard_boroughs, attempts |-> r.attempts]
            ELSE Stored(AppendMissing(nyc_boros(r.value), standard_boroughs), r.attempts)
    IN  IF c.current_jurisdiction = "NYC" THEN Asked(_make_api_request(env, 0))
        ELSE Stored(static_locations(c.current_jurisdiction), 0)

SessionInit ==
    /\ \E jurisdiction \in SessionCodes : ClientIs(NewClient(jurisdiction))
    /\ now = 0
    /\ call = [op |-> "__init__", n |-> 0, jurisdiction |-> current_jurisdiction]

\* api_client.set_jurisdiction(jurisdiction)
SwitchJurisdiction ==
    /\ call.n < MaxSteps
    /\ \E jurisdiction \in SessionCodes :
        \E r \in {set_jurisdiction(Client, jurisdiction)} :
            /\ ClientBecomes(r.client)
            /\ call' = [op |-> "set_jurisdiction", n |-> call.n + 1,
                        jurisdiction |-> jurisdiction, ret |-> r.ret,
                        search_entries |-> Cardinality(DOMAIN _search_cache),
                        location_entries |-> Cardinality(DOMAIN _location_cache)]
    /\ UNCHANGED now

\* api_client.get_available_locations()
GetLocations ==
    /\ call.n < MaxSteps
    /\ \E env \in SessionSources(current_jurisdiction) :
        \E r \in {get_available_locations(Client, env)} :
            /\ ClientBecomes(r.client)
            /\ call' = [op |-> "get_available_locations", n |-> call.n + 1,
                        jurisdiction |-> current_jurisdiction, ret |-> r.ret,
                        attempts |-> r.attempts]
    /\ UNCHANGED now

\* api_client.get_restaurants(limit=limit), the result left as returned
LoadResults ==
    /\ call.n < MaxSteps
    /\ \E limit \in {trends_limit, default_limit}, env \in SessionSources(current_jurisdiction) :
        \E r \in {get_restaurants(Client, None, None, None, None, None, limit, env, now)} :
            /\ ClientBecomes(r.client)
            /\ call' = [op |-> "get_restaurants", n |-> call.n + 1,
                        jurisdiction |-> current_jurisdiction,
                        cache_key |-> cache_key(current_jurisdiction, None, None, None, limit),
                        env |-> env, raised |-> r.raised, message |-> r.message,
                        ret |-> r.ret, hit |-> r.hit, attempts |-> r.attempts]
    /\ UNCHANGED now

\* show_inspection_trends with a city selected and the button pressed:
\* set_jurisdiction, get_restaurants(limit=500), then the parsed-date column
\* is added to the returned DataFrame when it has rows
ShowInspectionTrends ==
    /\ call.n < MaxSteps
    /\ \E selected_city \in trend_jurisdictions :
       \E env \in SessionSources(selected_city) :
        \E r \in {get_restaurants(set_jurisdiction(Client, selected_city).client,
                                   None, None, None, None, None, trends_limit, env, now)} :
            /\ ClientBecomes(IF ~r.raised /\ r.ret # <<>>
                             THEN MutatedInPlace(r.client,
                                      cache_key(selected_city, None, None, None, trends_limit),
                                      WithParsedDates(r.ret))
                             ELSE r.client)
            /\ call' = [op |-> "show_inspection_trends", n |-> call.n + 1,
                        jurisdiction |-> selected_city,
                        cache_key |-> cache_key(selected_city, None, None, None, trends_limit),
                        env |-> env, raised |-> r.raised, stored |-> r.ret,
                        hit |-> r.hit, attempts |-> r.attempts]
    /\ UNCHANGED now

SessionNext ==
    \/ SwitchJurisdiction
    \/ LoadResults
    \/ ShowInspectionTrends
    \/ GetLocations
    \/ Tick

SpecSession == SessionInit /\ [][SessionNext]_vars

\* C22: the result a cache hit returns equals the result that was stored
\* under its key, whatever the caller of the storing call did with the
\* result it was given.
C22_CacheHoldsSnapshots ==
    [][(/\ call.op = "show_inspection_trends"
        /\ ~call.raised
        /\ call'.op = "get_restaurants"
        /\ call'.n = call.n + 1
        /\ call'.hit
        /\ call'.cache_key = call.cache_key) => call'.ret = call.stored]_vars

\* A hit after a storing call that left its result alone returns what was
\* stored.
C22_UntouchedResultIsKept ==
    [][(/\ call.op = "get_restaurants"
        /\ ~call.raised /\ ~call.hit
        /\ call'.op = "get_restaurants"
        /\ call'.n = call.n + 1
        /\ call'.hit
        /\ call'.cache_key = call.cache_key) => call'.ret = call.ret]_vars

---------------------------------------------------------------------------
(* The search term in the requests of Seattle, Boston and Virginia         *)

\* The adapters that put the search term in a request parameter of their own
TermAdapters == {"Seattle", "Boston", "Virginia"}

TermsInit ==
    /\ \E jurisdiction \in TermAdapters : ClientIs(NewClient(jurisdiction))
    /\ now = 0
    /\ \E search_term \in SearchTerms : call = [op |-> "pending", search_term |-> search_term]

\* The adapter called with a search term; its first request is kept
SendSearch ==
    /\ call.op = "pending"
    /\ \E r \in {adapter(Client, None, None, None, call.search_term, None, default_limit,
                         SourceEmptyOf(current_jurisdiction))} :
           call' = [op |-> "search_request", jurisdiction |-> current_jurisdiction,
                    search_term |-> call.search_term, raised |-> r.raised,
                    params |-> r.requests[1].params]
    /\ UNCHANGED <<clientVars, now>>

TermsNext == SendSearch

SpecTerms == TermsInit /\ [][TermsNext]_vars

SearchSent == call.op = "search_request" /\ Truthy(call.search_term)

\* The parameter that carries the search term
TermParameter ==
    CASE call.jurisdiction = "Seattle" -> "$where"
      [] call.jurisdiction = "Boston" -> "q"
      [] call.jurisdiction = "Virginia" -> "name"

\* The text of the term as the source receives it: for Seattle what stands
\* between "UPPER(name) LIKE '%" and "%'"
TermSent ==
    IF call.jurisdiction = "Seattle"
    THEN SubSeq(call.params["$where"], Len("UPPER(name) LIKE '%") + 1,
                Len(call.params["$where"]) - Len("%'"))
    ELSE call.params[TermParameter]

\* C23: in Seattle, Boston and Virginia as in the other adapters, the quotes
\* around a quote-wrapped search term and the star that ends a term are not
\* sent to the source as characters of the pattern.
C23_MarkersNeverSent ==
    SearchSent =>
        /\ TermParameter \in DOMAIN call.params
        /\ QuoteWrapped(Val(call.search_term)) => ~QuoteWrapped(TermSent)
        /\ (~QuoteWrapped(Val(call.search_term)) /\ EndsInStar(Val(call.search_term)))
               => ~EndsInStar(TermSent)

\* Boston takes the quotes and the stars off the term.
C23_BostonStripsMarkers ==
    (SearchSent /\ call.jurisdiction = "Boston") => C23_MarkersNeverSent

\* Seattle and Virginia send the term as typed (Seattle in upper case).
C23_SentAsTyped ==
    (SearchSent /\ call.jurisdiction \in {"Seattle", "Virginia"}) =>
        TermSent = IF call.jurisdiction = "Seattle" THEN upper(Val(call.search_term))
                   ELSE Val(call.search_term)

---------------------------------------------------------------------------
(* Duplicates in the single-inspection adapters                            *)

SingleInspection ==
    {"Austin", "Seattle", "Los Angeles", "Dallas", "Virginia", "Detroit", "Boston"}

\* The fields of a raw row that hold the restaurant's name and its address
NameField(jurisdiction) ==
    CASE jurisdiction = "Austin" -> "restaurant_name"
      [] jurisdiction = "Seattle" -> "name"
      [] jurisdiction = "Los Angeles" -> "facility_name"
      [] jurisdiction = "Dallas" -> "establishment_name"
      [] jurisdiction = "Virginia" -> "name"
      [] jurisdiction = "Detroit" -> "business_name"
      [] jurisdiction = "Boston" -> "businessname"
AddressField(jurisdiction) ==
    IF jurisdiction = "Los Angeles" THEN "facility_address" ELSE "address"

\* The first row of the dataset at another address
AtOtherAddress(jurisdiction) ==
    [RowsOf(jurisdiction)[1] EXCEPT ![AddressField(jurisdiction)] = "2 Main St"]

DedupRows(jurisdiction) == Range(RowsOf(jurisdiction)) \cup {AtOtherAddress(jurisdiction)}

DedupInit ==
    /\ \E jurisdiction \in SingleInspection : ClientIs(NewClient(jurisdiction))
    /\ now = 0
    /\ \E rows \in SeqsUpTo(DedupRows(current_jurisdiction), MaxRows) :
           call = [op |-> "pending", rows |-> rows]

\* The adapter called with no filter on one page of rows
CallSingle ==
    /\ call.op = "pending"
    /\ \E r \in {adapter(Client, None, None, None, None, None, UnboundedLimit,
                         OnePage(current_jurisdiction, call.rows))} :
           call' = [op |-> "adapter", jurisdiction |-> current_jurisdiction,
                    rows |-> call.rows, raised |-> r.raised, ret |-> r.ret]
    /\ UNCHANGED <<clientVars, now>>

DedupNext == CallSingle

SpecDedup == DedupInit /\ [][DedupNext]_vars

\* The name and the address of a raw row, and the licence where the key of
\* the adapter has one
RowName(row) == strip(Get(row, NameField(call.jurisdiction), ""), Whitespace)
RowAddress(row) == Get(row, AddressField(call.jurisdiction), "")
RowIdentity(row) ==
    <<RowName(row), RowAddress(row),
      IF call.jurisdiction = "Boston" THEN Get(row, "licenseno", "") ELSE "">>

\* The restaurant the adapter builds from a row that arrives alone
BuiltFrom(row) ==
    adapter(NewClient(call.jurisdiction), None, None, None, None, None, UnboundedLimit,
            OnePage(call.jurisdiction, <<row>>)).ret[1]

\* Row i is the first of its name and address, compared without case.
FirstOfTuple(i) ==
    \A j \in 1..(i - 1) :
        \/ lower(RowName(call.rows[j])) # lower(RowName(call.rows[i]))
        \/ lower(RowAddress(call.rows[j])) # lower(RowAddress(call.rows[i]))

\* Row i repeats the identity of an earlier row.
RepeatsEarlier(i) == \E j \in 1..(i - 1) : RowIdentity(call.rows[j]) = RowIdentity(call.rows[i])

\* C24: in the single-inspection adapters, the first-seen row of every
\* (name, address) tuple yields its restaurant, so rows of one name at
\* different addresses yield distinct restaurants, and a later row of an
\* identity seen before adds no restaurant.
C24_DedupFirstSeen ==
    (call.op = "adapter" /\ ~call.raised) =>
        /\ \A i \in 1..Len(call.rows) :
               FirstOfTuple(i) => BuiltFrom(call.rows[i]) \in Range(call.ret)
        /\ Len(call.ret) <= Cardinality({i \in 1..Len(call.rows) : ~RepeatsEarlier(i)})

\* The same property for the adapters other than Austin's
C24_DedupElsewhere ==
    (call.op = "adapter" /\ call.jurisdiction # "Austin") => C24_DedupFirstSeen

\* Austin's key reads address_1, a field its request does not select: rows
\* are told apart by their name alone.
C24_AustinByNameAlone ==
    (call.op = "adapter" /\ ~call.raised /\ call.jurisdiction = "Austin") =>
        Len(call.ret) = Cardinality({RowName(call.rows[i]) : i \in 1..Len(call.rows)})

---------------------------------------------------------------------------
(* Codes that are not in the registry                                      *)

\* The call before this one asked for a switch to a code not in the registry.
SwitchRefused == call.op = "set_jurisdiction" /\ call.jurisdiction \notin DOMAIN apis

\* C25: a request made for a jurisdiction code that is not in the registry,
\* by a client constructed with the code or just asked to switch to it,
\* fails with an error; it is never answered with a result.
C25_UnknownJurisdictionFatal ==
    [][(/\ call'.op = "get_restaurants"
        /\ call'.n = call.n + 1
        /\ (call'.jurisdiction \notin DOMAIN apis \/ SwitchRefused)) => call'.raised]_vars

\* What the code does for a client constructed with such a code: the request
\* is answered with an empty result and no HTTP attempt.
C25_UnknownAnsweredEmpty ==
    (call.op = "get_restaurants" /\ call.jurisdiction \notin DOMAIN apis) =>
        (~call.raised /\ call.ret = <<>> /\ call.attempts = 0)

\* C26: in every state reached by constructing the client with any code
\* and switching any number of times, current_api is the registry entry of
\* current_jurisdiction.
C26_ApiMatchesJurisdiction ==
    /\ current_jurisdiction \in DOMAIN apis
    /\ current_api = apis[current_jurisdiction]

\* What holds: the two agree whenever current_jurisdiction is in the
\* registry, and a client constructed with another code has the NYC entry
\* until a switch succeeds.
C26_AgreeWhenRegistered ==
    IF current_jurisdiction \in DOMAIN apis THEN current_api = apis[current_jurisdiction]
    ELSE current_api = apis["NYC"]

---------------------------------------------------------------------------
(* The caches across switches of jurisdiction                              *)

\* Every entry of the search cache has a key made under current_jurisdiction.
EntriesOfCurrent ==
    \A key \in DOMAIN _search_cache : startswith(key, current_jurisdiction \o "_")

\* C27: after any sequence of calls every entry of the search cache was
\* stored under the current jurisdiction; a set_jurisdiction that succeeds
\* empties the search cache and the location cache, and one with an unknown
\* code returns False and changes no field of the client; a cache hit
\* returns a result stored under the jurisdiction the client is in.
C27_CachesFollowJurisdiction ==
    [][/\ EntriesOfCurrent'
       /\ (call'.op = "set_jurisdiction" /\ call'.n = call.n + 1) =>
             IF call'.jurisdiction \in DOMAIN apis
             THEN /\ call'.ret
                  /\ current_jurisdiction' = call'.jurisdiction
                  /\ current_api' = apis[call'.jurisdiction]
                  /\ DOMAIN _search_cache' = {}
                  /\ DOMAIN _location_cache' = {}
             ELSE /\ ~call'.ret
                  /\ UNCHANGED clientVars
       /\ (call'.op = "get_restaurants" /\ call'.n = call.n + 1 /\ call'.hit) =>
             /\ call'.cache_key \in DOMAIN _search_cache
             /\ startswith(call'.cache_key, current_jurisdiction' \o "_")]_vars

\* A switch that found an entry in each cache and left both empty
C27_Witness ==
    /\ call.op = "set_jurisdiction"
    /\ call.ret
    /\ call.search_entries > 0
    /\ call.location_entries > 0
    /\ current_jurisdiction = call.jurisdiction
    /\ DOMAIN _search_cache = {}
    /\ DOMAIN _location_cache = {}

\* A switch to an unknown code made while both caches held an entry
C27_WitnessRefused ==
    /\ call.op = "set_jurisdiction"
    /\ ~call.ret
    /\ call.search_entries > 0
    /\ call.location_entries > 0
    /\ Cardinality(DOMAIN _search_cache) = call.search_entries
    /\ Cardinality(DOMAIN _location_cache) = call.location_entries

---------------------------------------------------------------------------
(* The grade an adapter gives a row, looked up in the grade table          *)

\* The highest score a row carries.
MaxScore == 100

\* The adapters that bucket a number, and the raw field each adapter grades
Bucketing == {"Austin", "Dallas", "Virginia", "Seattle"}
RawGradeField(jurisdiction) ==
    CASE jurisdiction = "NYC" -> "grade"
      [] jurisdiction = "Chicago" -> "results"
      [] jurisdiction = "Boston" -> "result"
      [] jurisdiction = "Detroit" -> "inspection_result"
      [] jurisdiction = "Los Angeles" -> "grade"
      [] jurisdiction = "Seattle" -> "violation_points"
      [] OTHER -> "score"

GradeTable(jurisdiction) == apis[jurisdiction].grading_system.grades

\* The raw values a source sends: a word of the jurisdiction's native
\* vocabulary, or a score, or no value
RawValues(jurisdiction) ==
    IF jurisdiction \in Bucketing
    THEN {None} \cup {Some(ToString(n)) : n \in 0..MaxScore}
    ELSE {Some(grade) : grade \in DOMAIN GradeTable(jurisdiction)}

\* The first row of the dataset with the raw value in its grade field
GradedRow(jurisdiction, raw) ==
    [k \in (DOMAIN RowsOf(jurisdiction)[1] \ {RawGradeField(jurisdiction)})
           \cup (IF IsNone(raw) THEN {} ELSE {RawGradeField(jurisdiction)}) |->
        IF k = RawGradeField(jurisdiction) THEN Val(raw) ELSE RowsOf(jurisdiction)[1][k]]

VocabularyInit ==
    /\ \E jurisdiction \in Dispatched : ClientIs(NewClient(jurisdiction))
    /\ now = 0
    /\ \E raw \in RawValues(current_jurisdiction) : call = [op |-> "pending", raw |-> raw]

\* The adapter run on one row, then get_grade_info on the restaurant's grade
GradeRow ==
    /\ call.op = "pending"
    /\ \E r \in {adapter(Client, None, None, None, None, None, default_limit,
                         OnePage(current_jurisdiction,
                                 <<GradedRow(current_jurisdiction, call.raw)>>))} :
           call' = [op |-> "graded", jurisdiction |-> current_jurisdiction,
                    raw |-> call.raw, grade |-> r.ret[1].grade,
                    info |-> get_grade_info(Client, r.ret[1].grade).ret]
    /\ UNCHANGED <<clientVars, now>>

VocabularyNext == GradeRow

SpecVocabulary == VocabularyInit /\ [][VocabularyNext]_vars

\* C28: for every jurisdiction and every raw value of its native vocabulary,
\* or score the adapter buckets, the grade the adapter puts on the
\* restaurant is a key of the jurisdiction's grade table, and get_grade_info
\* on it returns the table's descriptor.
C28_GradeIsTableKey ==
    call.op = "graded" =>
        /\ call.grade \in DOMAIN GradeTable(call.jurisdiction)
        /\ call.info = GradeTable(call.jurisdiction)[call.grade]

\* The same property for the adapters other than Detroit's and Boston's
C28_TableKeyElsewhere ==
    (call.op = "graded" /\ call.jurisdiction \notin {"Detroit", "Boston"})
        => C28_GradeIsTableKey

\* Detroit and Boston rename words of their vocabulary to words that their
\* tables do not have: the lookup falls back to the gray descriptor.
C28_RenamedFallsBack ==
    (call.op = "graded" /\ call.grade \notin DOMAIN GradeTable(call.jurisdiction)) =>
        /\ <<call.jurisdiction, Val(call.raw), call.grade>>
               \in {<<"Detroit", "Conditional Pass", "Conditional">>,
                    <<"Boston", "HE_Pass", "Pass">>, <<"Boston", "HE_Fail", "Fail">>}
        /\ call.info = GradeFallback(call.grade)

---------------------------------------------------------------------------
(* Rows without a date in the history-building adapters                    *)

\* A row without its inspection_date
Undated(row) == [k \in DOMAIN row \ {"inspection_date"} |-> row[k]]

\* Two dated rows of one restaurant, the first of them again without its
\* date, and a row of another restaurant
UndatedRows(jurisdiction) ==
    IF jurisdiction = "NYC"
    THEN {NycRows[1], NycRows[2], Undated(NycRows[1]), NycRows[5]}
    ELSE {ChicagoRows[1], ChicagoRows[2], Undated(ChicagoRows[1]), ChicagoRows[5]}

UndatedInit ==
    /\ \E jurisdiction \in {"NYC", "Chicago"} : ClientIs(NewClient(jurisdiction))
    /\ now = 0
    /\ \E raw_data \in SeqsUpTo(UndatedRows(current_jurisdiction), MaxRows) :
           call = [op |-> "pending", raw_data |-> raw_data, cuisines |-> None,
                   limit |-> UnboundedLimit]

SpecUndated == UndatedInit /\ [][FoldNext]_vars

\* The well-formed dates of the rows of a key, and the greatest of them
DatesOfKey(key) ==
    {DateOf(call.raw_data[i], "inspection_date") : i \in RowsOfKey(key)}
        \cap {d \in {DateOf(call.raw_data[i], "inspection_date") : i \in RowsOfKey(key)} :
                 IsIsoDate(d)}
GreatestDate(dates) == CHOOSE d \in dates : \A e \in dates : StrGeq(d, e)

\* C29: in the NYC and Chicago adapters, a restaurant with at least one
\* inspection of a well-formed date has the greatest such date on
\* inspections[0] and at its top level, with the grade of a row of that
\* date; its top-level inspection_date is "N/A" only if none of its
\* inspections has a date.
C29_UndatedNeverLatest ==
    (FoldDone /\ FoldUnfiltered /\ Len(call.ret) = Len(FirstSeen)) =>
        \A n \in 1..Len(call.ret) :
            \A dates \in {DatesOfKey(RowKey(call.raw_data[FirstSeen[n]]))} :
                IF dates # {}
                THEN /\ call.ret[n].inspections[1].inspection_date = GreatestDate(dates)
                     /\ call.ret[n].inspection_date = GreatestDate(dates)
                     /\ \E i \in RowsOfKey(RowKey(call.raw_data[FirstSeen[n]])) :
                            /\ DateOf(call.raw_data[i], "inspection_date") = GreatestDate(dates)
                            /\ RowGrade(call.raw_data[i]) = call.ret[n].grade
                ELSE call.ret[n].inspection_date = "N/A"

\* What the sort does: the latest inspection is the one whose date string is
\* greatest, and "N/A" is greater than every date that starts with a digit.
C29_GreatestStringFirst ==
    (FoldDone /\ FoldUnfiltered) =>
        \A n \in 1..Len(call.ret) :
            /\ \A i \in 1..Len(call.ret[n].inspections) :
                   StrGeq(call.ret[n].inspection_date,
                          call.ret[n].inspections[i].inspection_date)
            /\ (\E i \in 1..Len(call.ret[n].inspections) :
                    call.ret[n].inspections[i].inspection_date = "N/A")
                   => call.ret[n].inspection_date = "N/A"

---------------------------------------------------------------------------
(* The paging adapters against sources of many pages                       *)

\* The most pages a source answers before its last answer sets in.
MaxPages == 21
\* A limit that lets the Seattle adapter ask for every page of its range.
LargeLimit == 5000

PagingLimits == {0, 1, UnboundedLimit, LargeLimit}

\* A source that answers k requests with the rows of the dataset, the same
\* rows every time, and every later attempt with last
PagesThen(jurisdiction, k, last) ==
    [script |-> [i \in 1..k |-> Attempt("ok", Wrap(jurisdiction, RowsOf(jurisdiction)))],
     tail |-> last]

\* The last answers: no rows, an HTTP error, a timeout, the same rows for ever
LastAnswers(jurisdiction) ==
    {Attempt("ok", Wrap(jurisdiction, <<>>)), Attempt("http_error", <<>>),
     Attempt("timeout", <<>>), Attempt("ok", Wrap(jurisdiction, RowsOf(jurisdiction)))}

PagingInit ==
    /\ \E jurisdiction \in Paging : ClientIs(NewClient(jurisdiction))
    /\ now = 0
    /\ \E limit \in PagingLimits, k \in 0..MaxPages, last \in LastAnswers(current_jurisdiction) :
           call = [op |-> "pending", cuisines |-> None, limit |-> limit,
                   env |-> PagesThen(current_jurisdiction, k, last)]

SpecPaging == PagingInit /\ [][AdaptersNext]_vars

\* The offset a page request carries
OffsetOf(request) ==
    IF "$offset" \in DOMAIN request.params THEN request.params["$offset"]
    ELSE request.params["offset"]

\* C30: whatever the source returns, one call of a paging adapter makes at
\* most 8 page requests for Seattle (none when limit is 0), at most 10 for
\* Detroit and at most 20 for Boston, at strictly increasing offsets, and
\* ends by returning or raising.
C30_BoundedPaging ==
    (AdapterDone /\ call.jurisdiction \in Paging) =>
        /\ Len(call.requests) <= (CASE call.jurisdiction = "Seattle" -> 8
                                    [] call.jurisdiction = "Detroit" -> 10
                                    [] call.jurisdiction = "Boston" -> 20)
        /\ (call.jurisdiction = "Seattle" /\ call.limit = 0) => call.requests = <<>>
        /\ \A i \in 1..(Len(call.requests) - 1) :
               OffsetOf(call.requests[i]) < OffsetOf(call.requests[i + 1])
        /\ call.raised \in BOOLEAN
        /\ call.attempts <= max_retries * Len(call.requests)

\* The source never stops sending the same rows.
Endless == call.env.tail = Attempt("ok", Wrap(call.jurisdiction, RowsOf(call.jurisdiction)))

\* Against such a source Boston asks for all its 20 pages and returns.
C30_Witness ==
    /\ AdapterDone
    /\ call.jurisdiction = "Boston"
    /\ Endless
    /\ Len(call.requests) = 20
    /\ OffsetOf(call.requests[20]) = 570000
    /\ ~call.raised

\* Seattle asks for 8 pages under a large limit, Detroit for 10.
C30_WitnessSeattle ==
    /\ AdapterDone
    /\ call.jurisdiction = "Seattle"
    /\ call.limit = LargeLimit
    /\ Endless
    /\ Len(call.requests) = 8
    /\ ~call.raised
C30_WitnessDetroit ==
    /\ AdapterDone
    /\ call.jurisdiction = "Detroit"
    /\ Endless
    /\ Len(call.requests) = 10
    /\ ~call.raised

===========================================================================
